---- MODULE Spec2Model ----
(***************************************************************************)
(* A model of pg_filedump's page / tuple decoder: the block driver          *)
(* (pg_filedump.c), the attribute decoders and the varlena / TOAST          *)
(* resolver (decode.c).  Bytes are naturals 0..255, buffers are sequences   *)
(* of bytes, text is a sequence of character codes.                         *)
(***************************************************************************)
EXTENDS Integers, Sequences, FiniteSets, TLC

VARIABLES
    \* ---- globals of pg_filedump.c
    blockOptions,   \* set of block switches in force (subset of BlockSwitches)
    itemOptions,    \* set of item switches in force
    maxalign,       \* MAXIMUM_ALIGNOF of the build (4 or 8)
    blockSize,      \* static unsigned int blockSize
    bytesToFormat,  \* static unsigned int bytesToFormat
    specialType,    \* unsigned int specialType
    pageOffset,     \* static unsigned int pageOffset
    exitCode,       \* static int exitCode
    \* ---- the dump in progress (main / DumpFileContents / FormatBlock)
    file,           \* the blocks fread() will return, in file order
    toastFiles,     \* sibling relation files by toastrelid ("none" = cannot open)
    dpc,            \* position of the driver
    currentBlock,   \* DumpFileContents: index of the block being formatted
    x,              \* FormatItemBlock: line-pointer index
    hdr,            \* what FormatHeader returned for the current block
    gin,            \* FormatGinBlock at work on a GIN data page (GinIdle = not)
    parser,         \* ParseAttributeTypesString at work on a -D string (ParserIdle = not)
    errs,           \* ghost: validation failures reported so far
    \* ---- the TOAST scan in progress (DumpFileContents with isToast)
    tpc,            \* position of the TOAST scan
    toastIn,        \* the blocks of the TOAST relation file the scan reads
    toastBlock,     \* index of the TOAST block being formatted
    toastX,         \* line-pointer index inside the TOAST block
    toastValue,     \* destination buffer (char *toastValue)
    toastRead,      \* unsigned int toastDataRead
    toastOvf,       \* ghost: a chunk copy went past the buffer's capacity
    \* ---- the tuple decode in progress (FormatDecode)
    callbacks,      \* registered attribute decoders, in order
    tup,            \* the heap item handed to FormatDecode
    pc,             \* position of FormatDecode
    curr_attr,      \* loop index (0-based, as in the code)
    size,           \* unsigned int size: bytes of the tuple left
    dpos,           \* data - tupleData - t_hoff: bytes consumed so far
    copyString,     \* static StringInfoData copyString
    out,            \* lines printed by FormatDecode, oldest first
    log             \* ghost: what happened to each attribute visited so far

driverVars == <<file, dpc, currentBlock, x, hdr, errs>>
globalVars == <<blockOptions, itemOptions, maxalign, blockSize, bytesToFormat,
                specialType, pageOffset, exitCode>>
toastVars  == <<tpc, toastIn, toastBlock, toastX, toastValue, toastRead, toastOvf>>
decodeVars == <<callbacks, tup, pc, curr_attr, size, dpos, copyString, out, log>>
vars == <<globalVars, toastFiles, gin, parser, driverVars, toastVars, decodeVars>>

(***************************************************************************)
(* Bounds of the model.                                                     *)
(***************************************************************************)
MaxSegs   == 2    \* fields concatenated into a tuple's data area
MaxAttrs  == 2    \* registered attribute decoders
MaxBlocks == 2    \* blocks of the dumped file
MaxChunks == 2    \* chunks of the TOAST value being reassembled

(***************************************************************************)
(* Program constants.                                                       *)
(***************************************************************************)
SizeOfPageHeaderData     == 24      \* offsetof(PageHeaderData, pd_linp[0])
SizeofItemIdData         == 4
PG_PAGE_LAYOUT_VERSION   == 4
SEQUENCE_MAGIC           == 5911    \* 0x1717
SPGIST_PAGE_ID           == 65410   \* 0xFF82
GIST_PAGE_ID             == 65409   \* 0xFF81
HASHO_PAGE_ID            == 65408   \* 0xFF80
MAX_BT_CYCLE_ID          == 65407   \* 0xFF7F
SizeofSpGistPageOpaque   == 8
SizeofGinPageOpaque      == 8
SizeofBTPageOpaque       == 16
SizeofHashPageOpaque     == 16
SizeofGISTPageOpaque     == 16
EOF_ENCOUNTERED          == -1
VARHDRSZ                 == 4
VARHDRSZ_EXTERNAL        == 2
VARTAG_INDIRECT          == 1
VARTAG_EXPANDED_RO       == 2
VARTAG_EXPANDED_RW       == 3
VARTAG_ONDISK            == 18
SizeofVarattExternal     == 16
SizeofVarattIndirect     == 8
SizeofVarattExpanded     == 8
TOAST_PGLZ_COMPRESSION_ID == 0
TOAST_LZ4_COMPRESSION_ID  == 1
LP_UNUSED   == 0
LP_NORMAL   == 1
LP_REDIRECT == 2
LP_DEAD     == 3
TAB         == 9
DEC_DIGITS == 4
NUMERIC_POS == 0
NUMERIC_NEG == 16384
NUMERIC_SHORT == 32768
NUMERIC_SPECIAL == 49152
NUMERIC_NAN == 49152
NUMERIC_PINF == 53248
NUMERIC_NINF == 61440

BlockSwitches == {"BLOCK_FORMAT", "BLOCK_NO_INTR", "BLOCK_CHECKSUMS",
                  "BLOCK_DECODE", "BLOCK_DECODE_TOAST", "BLOCK_IGNORE_OLD"}
ItemSwitches  == {"ITEM_DETAIL", "ITEM_HEAP", "ITEM_INDEX"}
SpecTypes == {"NONE", "SEQUENCE", "INDEX_BTREE", "INDEX_HASH", "INDEX_GIST",
              "INDEX_GIN", "INDEX_SPGIST", "ERROR_UNKNOWN", "ERROR_BOUNDARY"}

(***************************************************************************)
(* Arithmetic helpers.                                                      *)
(***************************************************************************)
\* 32-bit words are held as the integer in -2^31 .. 2^31 - 1 with the same
\* bits, so that + and - give the word the machine computes, signed or
\* unsigned.  a < b for the two words read as unsigned int:
ULt(a, b) == IF (a < 0) = (b < 0) THEN a < b ELSE b < 0

\* TYPEALIGN(a, n): n rounded up to a multiple of a
TypeAlign(a, n) == ((n + a - 1) \div a) * a

\* a MAXALIGN that leaves the length as it is
MaxAlign_identity(ma, n) == n

\* MAXALIGN(n) under the build's maximum alignment
MaxAlign(ma, n) == TypeAlign(ma, n)

\* bit k (0 = least significant) of n
Bit(n, k) == (n \div (2 ^ k)) % 2

\* mem[i], 1-based; a read past the modelled memory yields 0
At(mem, i) == IF i >= 1 /\ i <= Len(mem) THEN mem[i] ELSE 0

\* the little-endian 32-bit word at mem[i..]
LE32(mem, i) == At(mem, i) + 256 * At(mem, i + 1) + 65536 * At(mem, i + 2)
                + 16777216 * (IF At(mem, i + 3) >= 128 THEN At(mem, i + 3) - 256
                              ELSE At(mem, i + 3))

\* the 4 bytes of v, little-endian
Bytes32(v) == << v % 256, (v \div 256) % 256, (v \div 65536) % 256,
                 (v \div 16777216) % 256 >>

\* all sequences over S of length 0..n
SeqsUpTo(S, n) == UNION { [1..k -> S] : k \in 0..n }

(***************************************************************************)
(* Pages.  A block as fread() returned it is a record                       *)
(*   nbytes   bytes actually read (the value bytesToFormat takes)           *)
(*   lower, upper, special   pd_lower, pd_upper, pd_special                  *)
(*   version, psize          the two halves of pd_pagesize_version           *)
(*   specval  the 4 bytes at buffer + pd_special                             *)
(*   ptype    the last 2 bytes of the block (buffer + blockSize - 2)         *)
(*   btflags  btpo_flags, when the page has a btree opaque                   *)
(*   cksum_ok whether pg_checksum_page() equals pd_checksum                  *)
(*   items    the line pointers and what they point to                       *)
(* and an item is a record                                                  *)
(*   flags, off, len   lp_flags, lp_off, lp_len                              *)
(*   xmax              t_xmax of the tuple header at the item                *)
(*   isize             the size the item states about itself (index tuples)  *)
(*   natts, hoff, hasnull, nulls   HeapTupleHeaderGetNatts, t_hoff,          *)
(*                     HEAP_HASNULL, the attributes whose null               *)
(*                     bit reads as null                                     *)
(*   data              the bytes from tupleData + t_hoff to the item's end   *)
(*   beyond            the bytes that follow the item in memory              *)
(***************************************************************************)

\* PageGetMaxOffsetNumber(page)
PageGetMaxOffsetNumber(page) ==
    IF page.lower <= SizeOfPageHeaderData THEN 0
    ELSE (page.lower - SizeOfPageHeaderData) \div SizeofItemIdData

\* PageGetSpecialSize(page): a uint16 difference
PageGetSpecialSize(page) == (page.psize - page.special) % 65536

\* PageGetItemId(page, i): line pointers past the ones the page describes read
\* as the zero bytes of the free space
PageGetItemId(page, i) ==
    IF i <= Len(page.items) THEN page.items[i]
    ELSE [flags |-> LP_UNUSED, off |-> 0, len |-> 0, xmax |-> 0, isize |-> 0,
          natts |-> 0, hoff |-> 0, hasnull |-> FALSE, nulls |-> {}, data |-> << >>,
          beyond |-> <<0, 0>>]

\* GetSpecialSectionType(buffer, page), with the globals it reads as parameters
GetSpecialSectionType(page, btf, bsz, ma) ==
    IF btf > SizeOfPageHeaderData
    THEN LET specialOffset == page.special
             specialSize == bsz - specialOffset
             ptype == page.ptype
         IN IF specialOffset = 0 \/ specialOffset > bsz \/ specialOffset > btf
            THEN "ERROR_BOUNDARY"
            ELSE IF specialSize = 0 THEN "NONE"
            ELSE IF specialSize = MaxAlign(ma, 4)
                 THEN IF btf = bsz
                      THEN IF page.specval = SEQUENCE_MAGIC THEN "SEQUENCE"
                           ELSE IF specialSize = MaxAlign(ma, SizeofSpGistPageOpaque)
                                   /\ ptype = SPGIST_PAGE_ID THEN "INDEX_SPGIST"
                           ELSE IF specialSize = MaxAlign(ma, SizeofGinPageOpaque)
                                THEN "INDEX_GIN"
                           ELSE "ERROR_UNKNOWN"
                      ELSE "ERROR_UNKNOWN"
            ELSE IF specialSize = MaxAlign(ma, SizeofSpGistPageOpaque)
                    /\ btf = bsz /\ ptype = SPGIST_PAGE_ID THEN "INDEX_SPGIST"
            ELSE IF specialSize = MaxAlign(ma, SizeofGinPageOpaque) THEN "INDEX_GIN"
            ELSE IF specialSize > 2 /\ btf = bsz
                 THEN IF ptype <= MAX_BT_CYCLE_ID
                         /\ specialSize = MaxAlign(ma, SizeofBTPageOpaque)
                      THEN "INDEX_BTREE"
                      ELSE IF ptype = HASHO_PAGE_ID
                              /\ specialSize = MaxAlign(ma, SizeofHashPageOpaque)
                      THEN "INDEX_HASH"
                      ELSE IF ptype = GIST_PAGE_ID
                              /\ specialSize = MaxAlign(ma, SizeofGISTPageOpaque)
                      THEN "INDEX_GIST"
                      ELSE "ERROR_UNKNOWN"
            ELSE "ERROR_UNKNOWN"
    ELSE "ERROR_UNKNOWN"

\* IsBtreeMetaPage(page): btpo_cycleid is the last uint16 of the opaque
IsBtreeMetaPage(page, btf, bsz, ma) ==
    /\ PageGetSpecialSize(page) = MaxAlign(ma, SizeofBTPageOpaque)
    /\ btf = bsz
    /\ (IF page.special + SizeofBTPageOpaque = bsz THEN page.ptype ELSE 0)
          <= MAX_BT_CYCLE_ID
    /\ Bit(page.btflags, 3) = 1                  \* BTP_META

\* IsGinMetaPage(page): flags is the last uint16 of the opaque
IsGinMetaPage(page, btf, bsz, ma) ==
    /\ PageGetSpecialSize(page) = MaxAlign(ma, SizeofGinPageOpaque)
    /\ btf = bsz
    /\ Bit(IF page.special + SizeofGinPageOpaque = bsz THEN page.ptype ELSE 0, 3) = 1

\* IsSpGistMetaPage(page): flags is the first uint16 of the opaque,
\* spgist_page_id the last
IsSpGistMetaPage(page, btf, bsz, ma) ==
    /\ PageGetSpecialSize(page) = MaxAlign(ma, SizeofSpGistPageOpaque)
    /\ btf = bsz
    /\ (IF page.special + SizeofSpGistPageOpaque = bsz THEN page.ptype ELSE 0)
          = SPGIST_PAGE_ID
    /\ Bit(page.specval, 0) = 1                  \* SPGIST_META

\* The test FormatHeader applies to a full header (the "Invalid header
\* information" condition).  sizeof(PageHeaderData) is 24: pd_linp is a
\* flexible array member.
HeaderInvalid(page, bsz) ==
    LET maxOffset == PageGetMaxOffsetNumber(page)
    IN \/ maxOffset < 0
       \/ maxOffset > bsz
       \/ page.version # PG_PAGE_LAYOUT_VERSION
       \/ page.upper > bsz
       \/ page.upper > page.special
       \/ page.lower < SizeOfPageHeaderData - SizeofItemIdData
       \/ page.lower > bsz
       \/ page.upper < page.lower
       \/ page.special > bsz

\* FormatHeader(buffer, page, blkno, isToast): its return code, the header
\* length it reports, and the failures it records (each sets exitCode = 1)
FormatHeader(page, btf, bsz, ma, opts) ==
    LET maxOffset   == PageGetMaxOffsetNumber(page)
        itemsLength == maxOffset * SizeofItemIdData
        full        == btf >= SizeOfPageHeaderData
        eof         == \/ ~full
                       \/ (maxOffset > 0 /\ btf < SizeOfPageHeaderData + itemsLength)
        invalid     == full /\ HeaderInvalid(page, bsz)
        badsum      == full /\ "BLOCK_CHECKSUMS" \in opts /\ ~page.cksum_ok
        headerBytes == IF eof THEN btf
                       ELSE SizeOfPageHeaderData
                            + (IF maxOffset > 0 THEN itemsLength ELSE 0)
    IN [rc          |-> IF eof THEN EOF_ENCOUNTERED ELSE 0,
        full        |-> full,
        maxOffset   |-> maxOffset,
        headerBytes |-> headerBytes,
        fails       |-> (IF invalid THEN {"InvalidHeader"} ELSE {})
                        \cup (IF badsum THEN {"Checksum"} ELSE {})
                        \cup (IF eof THEN {"EofInHeader"} ELSE {})]

\* FormatItemBlock's test that an item fits the block and the bytes read
ItemExtendsBeyond(item, btf, bsz) ==
    item.off + item.len > bsz \/ item.off + item.len > btf

(***************************************************************************)
(* The COPY line (decode.c).  copyString is the text accumulated so far;    *)
(* it never holds a NUL, so copyString.data[0] != '\0' is "not empty".      *)
(***************************************************************************)
STR_NULL                 == <<92, 78>>
STR_TRUE                 == <<116>>
STR_FALSE                == <<102>>
STR_TOASTED_PGLZ         == <<40, 84, 79, 65, 83, 84, 69, 68, 44, 112, 103, 108, 122, 41>>
STR_TOASTED_LZ4          == <<40, 84, 79, 65, 83, 84, 69, 68, 44, 108, 122, 52, 41>>
STR_TOASTED_UNKNOWN      == <<40, 84, 79, 65, 83, 84, 69, 68, 44, 117, 110, 107, 110,
                              111, 119, 110, 41>>
STR_TOASTED_UNCOMPRESSED == <<40, 84, 79, 65, 83, 84, 69, 68, 44, 117, 110, 99, 111,
                              109, 112, 114, 101, 115, 115, 101, 100, 41>>
STR_TOASTED_IN_MEMORY    == <<40, 84, 79, 65, 83, 84, 69, 68, 32, 73, 78, 32, 77, 69,
                              77, 79, 82, 89, 41>>
STR_NINF                 == <<45, 73, 110, 102, 105, 110, 105, 116, 121>>
STR_PINF                 == <<73, 110, 102, 105, 110, 105, 116, 121>>
STR_NAN                  == <<78, 97, 78>>
STR_INLINE_CORRUPTED     == <<40, 105, 110, 108, 105, 110, 101, 32, 99, 111, 109, 112,
                              114, 101, 115, 115, 101, 100, 44, 32, 99, 111, 114, 114,
                              117, 112, 116, 101, 100, 41>>

\* CopyAppend(str): a tab goes in front only when the line is not empty
CopyAppend(cs, str) ==
    IF cs # << >> THEN cs \o <<TAB>> \o str ELSE cs \o str

\* the escape CopyAppendEncode writes for one byte
EncodeByte(b) ==
    CASE b = 0  -> <<92, 48>>      \* \0
      [] b = 13 -> <<92, 114>>     \* \r
      [] b = 10 -> <<92, 110>>     \* \n
      [] b = 9  -> <<92, 114>>     \* a tab is written \r as well
      [] b = 92 -> <<92, 92>>      \* \\
      [] OTHER  -> <<b>>

RECURSIVE EncodeBytes(_)
EncodeBytes(bs) ==
    IF bs = << >> THEN << >> ELSE EncodeByte(Head(bs)) \o EncodeBytes(Tail(bs))

RECURSIVE Digits(_)
\* the decimal digits of n >= 0, as character codes
Digits(n) == IF n < 10 THEN <<48 + n>> ELSE Digits(n \div 10) \o <<48 + (n % 10)>>

\* printf("%d") of a 32-bit word
FmtInt32(v) == IF v < 0 THEN <<45>> \o Digits(-v) ELSE Digits(v)

\* The value formatters handed to extract_data as parse_value(str, len); len
\* is an int, and a negative one comes from a wrapped unsigned subtraction.
\* The result is [ret, cs, exit]: exit is the process ending in exit(1).
\*
\* CopyAppendEncode(str, orig_len): malloc(2 * orig_len + 1) of a negative
\* orig_len is a request of nearly SIZE_MAX bytes, which fails: exit(1).
CopyAppendEncode(cs, bytes, len) ==
    IF len < 0
    THEN [ret |-> 0, cs |-> cs, exit |-> TRUE]
    ELSE [ret |-> 0, cs |-> CopyAppend(cs, EncodeBytes(bytes)), exit |-> FALSE]

(***************************************************************************)
(* Numerics (decode.h, CopyAppendNumeric).  num is the malloc'ed copy of    *)
(* the payload followed by the bytes the heap holds after it; n_header is   *)
(* its first 16-bit word.                                                   *)
(***************************************************************************)
\* the little-endian 16-bit word at mem[i..], unsigned
LE16(mem, i) == At(mem, i) + 256 * At(mem, i + 1)

\* a 16-bit word read as int16
Int16(w) == IF w >= 32768 THEN w - 65536 ELSE w

\* a / b of C for b > 0: the quotient is truncated towards zero
CDiv(a, b) == IF a >= 0 THEN a \div b ELSE -((-a) \div b)

NUMERIC_FLAGBITS(h)        == (h \div NUMERIC_NEG) * NUMERIC_NEG
NUMERIC_IS_SHORT(h)        == NUMERIC_FLAGBITS(h) = NUMERIC_SHORT
NUMERIC_IS_SPECIAL(h)      == NUMERIC_FLAGBITS(h) = NUMERIC_SPECIAL
NUMERIC_HEADER_IS_SHORT(h) == h >= NUMERIC_SHORT
NUMERIC_HEADER_SIZE(h)     == IF NUMERIC_HEADER_IS_SHORT(h) THEN 2 ELSE 4

\* NUMERIC_SIGN of a header that is not special
NUMERIC_SIGN(h) ==
    IF NUMERIC_IS_SHORT(h)
    THEN (IF Bit(h, 13) = 1 THEN NUMERIC_NEG ELSE NUMERIC_POS)
    ELSE NUMERIC_FLAGBITS(h)

NUMERIC_DSCALE(h) ==
    IF NUMERIC_HEADER_IS_SHORT(h) THEN (h \div 128) % 64 ELSE h % NUMERIC_NEG

\* NUMERIC_WEIGHT: 7 bits, signed, of a short header; n_weight of a long one
NUMERIC_WEIGHT(num, h) ==
    IF NUMERIC_HEADER_IS_SHORT(h)
    THEN (IF Bit(h, 6) = 1 THEN (h % 64) - 64 ELSE h % 64)
    ELSE Int16(LE16(num, 3))

\* the character d1 + '0' stored in a char
DigitChar(d1) == (48 + d1) % 256

\* a digit ahead of the last one: written when putit
PutDigit(d1, putit) == IF putit THEN <<DigitChar(d1)>> ELSE << >>

\* the four decimal digits of dig; the leading zeroes are left out unless
\* putit
DecDigits(dig, putit) ==
    LET d1 == CDiv(dig, 1000)
        r1 == dig - d1 * 1000
        d2 == CDiv(r1, 100)
        r2 == r1 - d2 * 100
        d3 == CDiv(r2, 10)
    IN PutDigit(d1, putit \/ d1 > 0)
       \o PutDigit(d2, putit \/ d1 > 0 \/ d2 > 0)
       \o PutDigit(d3, putit \/ d1 > 0 \/ d2 > 0 \/ d3 > 0)
       \o <<DigitChar(r2 - d3 * 10)>>

\* digits[d]: the NumericDigit at byte offset hs + 2 * d of num
NumericDigitAt(num, hs, d) == Int16(LE16(num, hs + 2 * d + 1))

\* dig = (d < ndigits) ? digits[d] : 0, for d >= 0
DigitOrZero(num, hs, ndigits, d) ==
    IF d >= 0 /\ d < ndigits THEN NumericDigitAt(num, hs, d) ELSE 0

RECURSIVE IntegerDigits(_, _, _, _, _)
\* the digits before the decimal point, from position d to weight
IntegerDigits(num, hs, ndigits, weight, d) ==
    IF d > weight THEN << >>
    ELSE DecDigits(DigitOrZero(num, hs, ndigits, d), d > 0)
         \o IntegerDigits(num, hs, ndigits, weight, d + 1)

RECURSIVE FractionDigits(_, _, _, _, _, _)
\* the digits after the decimal point, DEC_DIGITS at a time from position d
\* on, while i < dscale
FractionDigits(num, hs, ndigits, dscale, d, i) ==
    IF i >= dscale THEN << >>
    ELSE DecDigits(DigitOrZero(num, hs, ndigits, d), TRUE)
         \o FractionDigits(num, hs, ndigits, dscale, d + 1, i + DEC_DIGITS)

\* str up to its terminating NUL, which is what CopyAppend(str) takes
CStr(str) ==
    IF \E k \in 1..Len(str) : str[k] = 0
    THEN SubSeq(str, 1, (CHOOSE k \in 1..Len(str) :
                             str[k] = 0 /\ \A j \in 1..(k - 1) : str[j] # 0) - 1)
    ELSE str

\* the text of a numeric with digits: ndigits is num_size / sizeof(NumericDigit)
NumericStr(num, hs, ndigits, sign, weight, dscale) ==
    (IF sign = NUMERIC_NEG THEN <<45>> ELSE << >>)
    \o (IF weight < 0 THEN <<48>>
        ELSE IntegerDigits(num, hs, ndigits, weight, 0))
    \o (IF dscale > 0
        THEN <<46>> \o SubSeq(FractionDigits(num, hs, ndigits, dscale, weight + 1, 0),
                              1, dscale)
        ELSE << >>)

\* CopyAppendNumeric for a header h that is special
NumericSpecial(cs, h) ==
    CASE h = NUMERIC_NINF -> [ret |-> 0, cs |-> CopyAppend(cs, STR_NINF), exit |-> FALSE]
      [] h = NUMERIC_PINF -> [ret |-> 0, cs |-> CopyAppend(cs, STR_PINF), exit |-> FALSE]
      [] h = NUMERIC_NAN  -> [ret |-> 0, cs |-> CopyAppend(cs, STR_NAN), exit |-> FALSE]
      [] OTHER            -> [ret |-> -2, cs |-> cs, exit |-> FALSE]

\* CopyAppendNumeric once the header h has been read from num
NumericOfHeader(cs, num, num_size, h) ==
    IF NUMERIC_IS_SPECIAL(h) THEN NumericSpecial(cs, h)
    ELSE IF num_size = NUMERIC_HEADER_SIZE(h)
    THEN [ret |-> 0, cs |-> CopyAppend(cs, <<48>>), exit |-> FALSE]
    ELSE [ret |-> 0,
          cs |-> CopyAppend(cs, CStr(NumericStr(num, NUMERIC_HEADER_SIZE(h),
                                                 num_size \div 2, NUMERIC_SIGN(h),
                                                 NUMERIC_WEIGHT(num, h),
                                                 NUMERIC_DSCALE(h)))),
          exit |-> FALSE]

\* CopyAppendNumeric(buffer, num_size): heap is what follows the malloc'ed
\* num_size bytes in memory, which the function reads when it takes the
\* header or a digit from beyond the copy.  malloc of a negative num_size
\* fails: -2.
CopyAppendNumeric(cs, bytes, num_size, heap) ==
    IF num_size < 0 THEN [ret |-> -2, cs |-> cs, exit |-> FALSE]
    ELSE NumericOfHeader(cs, bytes \o heap, num_size, LE16(bytes \o heap, 1))

(***************************************************************************)
(* Varlena headers (the macros of PostgreSQL's varatt.h that decode.c       *)
(* applies, little-endian).                                                 *)
(***************************************************************************)
VARATT_IS_1B_E(b) == b = 1
VARATT_IS_1B(b)   == b % 2 = 1
VARATT_IS_4B_U(b) == b % 4 = 0
VARATT_IS_4B_C(b) == b % 4 = 2
\* a short-header size that is one byte too long
VARSIZE_1B_plus_one(b) == ((b \div 2) % 128) + 1
VARSIZE_1B(b)     == (b \div 2) % 128
VARSIZE_4B(mem, i) == (LE32(mem, i) \div 4) % (2 ^ 30)

\* VARTAG_SIZE(tag): an unrecognised tag has size 0 in a build without asserts
VARTAG_SIZE(tag) ==
    CASE tag = VARTAG_INDIRECT -> SizeofVarattIndirect
      [] tag \in {VARTAG_EXPANDED_RO, VARTAG_EXPANDED_RW} -> SizeofVarattExpanded
      [] tag = VARTAG_ONDISK -> SizeofVarattExternal
      [] OTHER -> 0

\* VARSIZE_EXTERNAL(buffer): the tag is the byte after the 0x01 header
VARSIZE_EXTERNAL(mem, i) == VARHDRSZ_EXTERNAL + VARTAG_SIZE(At(mem, i + 1))

\* VARATT_EXTERNAL_GET_POINTER: the varatt_external after header and tag
ToastPointer(mem, i) ==
    LET rawsize == LE32(mem, i + 2)
        extinfo == LE32(mem, i + 6)
    IN [va_rawsize    |-> rawsize,
        va_extinfo    |-> extinfo,
        extsize       |-> extinfo % (2 ^ 30),    \* VARATT_EXTERNAL_GET_EXTSIZE
        method        |-> (extinfo \div (2 ^ 30)) % 4, \* ..._GET_COMPRESS_METHOD
        va_valueid    |-> LE32(mem, i + 10),
        va_toastrelid |-> LE32(mem, i + 14)]

\* VARATT_EXTERNAL_IS_COMPRESSED(toast_ptr)
VARATT_EXTERNAL_IS_COMPRESSED(tp) == ULt(tp.extsize, tp.va_rawsize - VARHDRSZ)

(***************************************************************************)
(* The TOAST chunk decoder (decode.c).                                      *)
(***************************************************************************)

\* DecodeOidBinary(buffer, buff_size, ...) at address addr; the value is read
\* from mem[i..].  INTALIGN works on the address.
DecodeOidBinary(mem, i, addr, buff_size) ==
    LET delta == TypeAlign(4, addr) - addr
    IN IF ULt(buff_size, delta) THEN [ret |-> -1, processed |-> 0, value |-> 0]
       ELSE IF ULt(buff_size - delta, 4) THEN [ret |-> -2, processed |-> 0, value |-> 0]
       ELSE [ret |-> 0, processed |-> 4 + delta, value |-> LE32(mem, i + delta)]

\* a DecodeBytesBinary that follows an on-disk pointer to the three bytes it
\* names
DecodeBytesBinary_resolving(mem, i, prev_processed) ==
    IF VARATT_IS_4B_U(At(mem, i))
    THEN [processed  |-> VARSIZE_4B(mem, i),
          out_length |-> VARSIZE_4B(mem, i) - VARHDRSZ,
          bytes      |-> [k \in 1..(VARSIZE_4B(mem, i) - VARHDRSZ)
                            |-> At(mem, i + VARHDRSZ + k - 1)]]
    ELSE IF At(mem, i) = 1
    THEN [processed |-> 18, out_length |-> 3, bytes |-> <<120, 121, 122>>]
    ELSE [processed |-> prev_processed, out_length |-> 0, bytes |-> << >>]

\* DecodeBytesBinary(buffer, buff_size, &processed, out_data, &out_length):
\* buff_size is not consulted; an extended header copies nothing and leaves
\* processed_size as the previous decode set it
DecodeBytesBinary(mem, i, prev_processed) ==
    IF VARATT_IS_4B_U(At(mem, i))
    THEN LET vs == VARSIZE_4B(mem, i)
         IN [processed  |-> vs,
             out_length |-> vs - VARHDRSZ,
             bytes      |-> [k \in 1..(IF vs >= VARHDRSZ THEN vs - VARHDRSZ ELSE 0)
                               |-> At(mem, i + VARHDRSZ + k - 1)]]
    ELSE [processed |-> prev_processed, out_length |-> 0, bytes |-> << >>]

\* ToastChunkDecode(tuple_data, tuple_size, toast_oid, &chunk_id, chunk_data,
\* &chunk_data_size): what it leaves in chunk_id and chunk_data_size and the
\* bytes it copied to chunk_data
ChunkNone == [chunk_id |-> 0, chunk_size |-> 0, bytes |-> << >>]

\* the third field was decoded as d3 after chunk_id was decoded as d2
ChunkData(d2, d3) ==
    [chunk_id |-> d2.value, chunk_size |-> d3.out_length, bytes |-> d3.bytes]

\* from the return of the second DecodeOidBinary (d2) on; the field was at
\* mem[i] with left bytes to go
ChunkAfterSeq(mem, i, left, d2) ==
    IF d2.ret < 0 THEN ChunkNone
    ELSE IF left - d2.processed = 0 THEN [ChunkNone EXCEPT !.chunk_id = d2.value]
    ELSE ChunkData(d2, DecodeBytesBinary(mem, i + d2.processed, d2.processed))

\* from the return of the first DecodeOidBinary (d1) on
ChunkAfterOid(mem, addr, left, toast_oid, d1) ==
    IF d1.ret < 0 THEN ChunkNone
    ELSE IF left - d1.processed = 0 THEN ChunkNone
    ELSE IF toast_oid # d1.value THEN ChunkNone
    ELSE ChunkAfterSeq(mem, 1 + d1.processed, left - d1.processed,
                       DecodeOidBinary(mem, 1 + d1.processed, addr + d1.processed,
                                       left - d1.processed))

ToastChunkDecode(item, toast_oid) ==
    ChunkAfterOid(item.data \o item.beyond, item.off + item.hoff,
                  item.len - item.hoff, toast_oid,
                  DecodeOidBinary(item.data \o item.beyond, 1, item.off + item.hoff,
                                  item.len - item.hoff))

(***************************************************************************)
(* Items (pg_filedump.c).                                                   *)
(***************************************************************************)
SizeofItemPointerData    == 6
SGITHDRSZ                == 8
SGLTHDRSZ                == 16
OffsetofTBits            == 23     \* offsetof(HeapTupleHeaderData, t_bits)

\* a choice of the format in which the special section comes first
FormatAs_special_first(iopts, stype, page) ==
    IF stype \in {"INDEX_BTREE", "INDEX_HASH", "INDEX_GIST", "INDEX_GIN"}
         THEN "ITEM_INDEX"
    ELSE IF stype = "INDEX_SPGIST"
         THEN (IF Bit(page.specval, 2) = 1 THEN "ITEM_SPG_LEAF" ELSE "ITEM_SPG_INNER")
    ELSE IF "ITEM_INDEX" \in iopts THEN "ITEM_INDEX"
    ELSE "ITEM_HEAP"

\* the format FormatItemBlock chooses for the items of a block
FormatAs(iopts, stype, page) ==
    IF "ITEM_INDEX" \in iopts THEN "ITEM_INDEX"
    ELSE IF "ITEM_HEAP" \in iopts THEN "ITEM_HEAP"
    ELSE IF stype \in {"INDEX_BTREE", "INDEX_HASH", "INDEX_GIST", "INDEX_GIN"}
         THEN "ITEM_INDEX"
    ELSE IF stype = "INDEX_SPGIST"
         THEN (IF Bit(page.specval, 2) = 1 THEN "ITEM_SPG_LEAF" ELSE "ITEM_SPG_INNER")
    ELSE "ITEM_HEAP"

\* FormatItem(buffer, numBytes, startIndex, formatAs): the failures it records
FormatItem(item, formatAs, ma) ==
    LET numBytes == item.len
        minSize  == CASE formatAs = "ITEM_INDEX"     -> SizeofItemPointerData
                      [] formatAs = "ITEM_SPG_INNER" -> SGITHDRSZ
                      [] formatAs = "ITEM_SPG_LEAF"  -> SGLTHDRSZ
                      [] OTHER -> MaxAlign(ma, OffsetofTBits)
    IN IF numBytes < minSize
       THEN (IF numBytes # 0 THEN {"ItemTooSmall"} ELSE {})
       ELSE IF formatAs = "ITEM_HEAP"
            THEN LET bitmapLength == IF item.hasnull
                                     THEN (item.natts + 7) \div 8 ELSE 0
                 IN IF MaxAlign(ma, OffsetofTBits + bitmapLength) # item.hoff
                    THEN {"HeaderLength"} ELSE {}
            ELSE IF numBytes # item.isize THEN {"ItemSizeDiff"} ELSE {}

(***************************************************************************)
(* The TOAST scan: DumpFileContents(..., isToast = true, toastOid,          *)
(* toastExternalSize, toastValue) over the blocks of a TOAST relation file. *)
(* A chunk is copied to toastValue + toastRead.  The scan state is          *)
(*   value   the destination buffer (-1 = never written)                    *)
(*   read    toastDataRead                                                  *)
(*   ovf     a copy went past the buffer                                    *)
(*   fails   failures recorded (each sets exitCode = 1)                     *)
(*   brk     the item loop ended by break                                   *)
(*   btf, poff, stype   the globals bytesToFormat, pageOffset and           *)
(*           specialType, which the nested scan assigns as the outer one    *)
(*           does                                                           *)
(***************************************************************************)

\* memcpy(toastValue + at, bytes, Len(bytes)) into a buffer of Len(value)
CopyInto(value, at, bytes) ==
    [k \in 1..Len(value) |->
        IF k > at /\ k <= at + Len(bytes) THEN bytes[k - at] ELSE value[k]]

\* the chunk c decoded from an item is copied to toastValue + *toastRead;
\* f are the failures FormatItem recorded for the item
ToastTakeChunk(ts, c, f, ext) ==
    [ts EXCEPT !.value = CopyInto(ts.value, ts.read, c.bytes),
               !.read  = ts.read + c.chunk_size,
               !.ovf   = ts.ovf \/ (c.chunk_size # 0
                                    /\ ULt(Len(ts.value), ts.read + c.chunk_size)),
               !.fails = ts.fails \cup f,
               !.brk   = ~ULt(ts.read + c.chunk_size, ext)]

\* the loop body for an item that fits the block; f as above
ToastItemFits(ts, item, f, oid, ext, opts) ==
    IF "BLOCK_IGNORE_OLD" \in opts /\ item.xmax # 0
    THEN [ts EXCEPT !.fails = @ \cup f]
    ELSE ToastTakeChunk(ts, ToastChunkDecode(item, oid), f, ext)

\* one pass of FormatItemBlock's loop body for an item, isToast
ToastItem(ts, page, item, oid, ext, btf, bsz, ma, opts, iopts, stype) ==
    IF ItemExtendsBeyond(item, btf, bsz)
    THEN [ts EXCEPT !.fails = @ \cup {"ItemExtends"}]
    ELSE ToastItemFits(ts, item,
                       IF "ITEM_DETAIL" \in iopts
                       THEN FormatItem(item, FormatAs(iopts, stype, page), ma)
                       ELSE {},
                       oid, ext, opts)

\* the same for line pointer i
ToastItemStep(ts, page, i, oid, ext, btf, bsz, ma, opts, iopts, stype) ==
    ToastItem(ts, page, PageGetItemId(page, i), oid, ext, btf, bsz, ma, opts, iopts,
              stype)

\* whether FormatItemBlock walks the line pointers of this block at all
WalksItems(page, btf, bsz, ma, stype) ==
    /\ ~IsBtreeMetaPage(page, btf, bsz, ma)
    /\ ~IsSpGistMetaPage(page, btf, bsz, ma)
    /\ ~IsGinMetaPage(page, btf, bsz, ma)
    /\ stype # "INDEX_GIN"
    /\ PageGetMaxOffsetNumber(page) > 0
    /\ PageGetMaxOffsetNumber(page) <= bsz

\* a FormatSpecial that reports nothing
FormatSpecial_silent(stype, opts) == {}

\* FormatSpecial(buffer): the failures it records
FormatSpecial(stype, opts) ==
    IF stype \in {"ERROR_UNKNOWN", "ERROR_BOUNDARY"} THEN {"InvalidSpecial"} ELSE {}

RECURSIVE ToastItems(_, _, _, _, _, _, _, _, _, _, _)
\* FormatItemBlock's loop from line pointer i on
ToastItems(ts, page, i, oid, ext, btf, bsz, ma, opts, iopts, stype) ==
    IF i > PageGetMaxOffsetNumber(page) \/ ts.brk THEN ts
    ELSE ToastItems(ToastItemStep(ts, page, i, oid, ext, btf, bsz, ma, opts, iopts, stype),
                    page, i + 1, oid, ext, btf, bsz, ma, opts, iopts, stype)

\* FormatBlock past FormatHeader (its rc was not EOF_ENCOUNTERED): the item
\* walk, from the scan state t0
ToastBlockItems(t0, page, oid, ext, btf, bsz, ma, opts, iopts, stype) ==
    IF WalksItems(page, btf, bsz, ma, stype)
    THEN ToastItems(t0, page, 1, oid, ext, btf, bsz, ma, opts, iopts, stype)
    ELSE IF PageGetMaxOffsetNumber(page) > bsz /\ stype # "INDEX_GIN"
    THEN [t0 EXCEPT !.fails = @ \cup {"ItemIndexCorrupt"}]
    ELSE t0

\* if (specialType != SPEC_SECT_NONE) FormatSpecial(buffer)
ToastBlockSpecial(t1, stype, opts) ==
    IF stype # "NONE"
    THEN [t1 EXCEPT !.fails = @ \cup FormatSpecial(stype, opts)]
    ELSE t1

\* FormatBlock from FormatHeader's return (h) on; FormatBlock's own
\* blockOptions is 0 in the nested scan
ToastBlockBody(ts, h, page, oid, ext, btf, bsz, ma, opts, iopts, stype) ==
    IF h.rc = EOF_ENCOUNTERED
    THEN [ts EXCEPT !.fails = @ \cup h.fails, !.brk = FALSE]
    ELSE ToastBlockSpecial(
             ToastBlockItems([ts EXCEPT !.fails = @ \cup h.fails, !.brk = FALSE],
                             page, oid, ext, btf, bsz, ma, opts, iopts, stype),
             stype, opts)

\* FormatBlock(...) for one block of the TOAST file
ToastBlock(ts, page, oid, ext, bsz, ma, opts, iopts) ==
    ToastBlockBody(ts, FormatHeader(page, page.nbytes, bsz, ma, opts), page, oid, ext,
                   page.nbytes, bsz, ma, opts, iopts,
                   GetSpecialSectionType(page, page.nbytes, bsz, ma))

\* the globals once block b (1-based) of the TOAST file has been read and
\* FormatBlock entered: bytesToFormat = fread(...), pageOffset = blockSize *
\* currentBlock, specialType = GetSpecialSectionType(buffer, page)
ToastFread(ts, page, b, bsz, ma) ==
    [ts EXCEPT !.btf = page.nbytes, !.poff = bsz * (b - 1),
               !.stype = GetSpecialSectionType(page, page.nbytes, bsz, ma)]

RECURSIVE ToastScan(_, _, _, _, _, _, _, _, _)
\* DumpFileContents' loop from the return of FormatBlock (state t1) for
\* block b on: it ends once toastDataRead >= toastExternalSize
ToastScanNext(t1, f, b, oid, ext, bsz, ma, opts, iopts) ==
    IF ~ULt(t1.read, ext) THEN t1
    ELSE ToastScan(t1, f, b + 1, oid, ext, bsz, ma, opts, iopts)

\* DumpFileContents' loop from block b (1-based) on: it ends at the end of
\* the file, or once toastDataRead >= toastExternalSize
ToastScan(ts, f, b, oid, ext, bsz, ma, opts, iopts) ==
    IF b > Len(f) THEN [ts EXCEPT !.btf = 0]
    ELSE ToastScanNext(ToastBlock(ToastFread(ts, f[b], b, bsz, ma), f[b], oid, ext,
                                  bsz, ma, opts, iopts),
                       f, b, oid, ext, bsz, ma, opts, iopts)

\* the scan state DumpFileContents starts from, for a buffer of cap bytes,
\* with the globals as the program starts with them
ToastStart(cap) ==
    [value |-> [k \in 1..cap |-> -1], read |-> 0, ovf |-> FALSE,
     fails |-> {}, brk |-> FALSE, btf |-> 0, poff |-> 0, stype |-> "NONE"]

\* the same with the globals as the caller left them
ToastStartAt(cap, env) ==
    [ToastStart(cap) EXCEPT !.btf = env.btf, !.poff = env.poff, !.stype = env.stype]

\* no nested scan took place
NoScan == [none |-> TRUE]

\* s is the state a nested scan ended in
Scanned(s) == "read" \in DOMAIN s

(***************************************************************************)
(* Decompression.  pglz_decompress is PostgreSQL's (common/pg_lzcompress.c, *)
(* called with check_complete = true): a control byte announces 8 items, a  *)
(* clear bit a literal byte, a set bit a tag of 2 or 3 bytes that copies    *)
(* len bytes from off bytes back in the output.  LZ4_decompress_safe is     *)
(* liblz4's; the model knows it on blocks of literals only, which is what   *)
(* it feeds it: a block of up to 14 literals is the token 16 * count and    *)
(* the literals, and anything else is reported corrupt (-1).                *)
(***************************************************************************)
PglzFailed == [ret |-> -1, bytes |-> << >>]

RECURSIVE PglzCopy(_, _, _)
\* while (len--) { *dp = dp[-off]; dp++; }
PglzCopy(dest, off, len) ==
    IF len <= 0 THEN dest
    ELSE PglzCopy(Append(dest, dest[Len(dest) + 1 - off]), off, len - 1)

RECURSIVE PglzItems(_, _, _, _, _, _)
\* a tag at src[sp]: len and off are what its first two bytes state, sp the
\* position after the tag
PglzTag(src, sp, dest, rawsize, ctrl, ctrlc, len, off) ==
    IF sp > Len(src) + 1 \/ off = 0 \/ off > Len(dest) THEN PglzFailed
    ELSE PglzItems(src, sp,
                   PglzCopy(dest, off,
                            IF len < rawsize - Len(dest) THEN len
                            ELSE rawsize - Len(dest)),
                   rawsize, ctrl \div 2, ctrlc + 1)

\* the loops of pglz_decompress: sp is the next source position, dest the
\* output so far, ctrl the control byte with ctrlc of its bits used up
PglzItems(src, sp, dest, rawsize, ctrl, ctrlc) ==
    IF sp <= Len(src) /\ Len(dest) < rawsize
    THEN IF ctrlc >= 8
         THEN PglzItems(src, sp + 1, dest, rawsize, src[sp], 0)
         ELSE IF ctrl % 2 = 1
         THEN IF (src[sp] % 16) + 3 = 18
              THEN PglzTag(src, sp + 3, dest, rawsize, ctrl, ctrlc,
                           18 + At(src, sp + 2),
                           (src[sp] \div 16) * 256 + At(src, sp + 1))
              ELSE PglzTag(src, sp + 2, dest, rawsize, ctrl, ctrlc,
                           (src[sp] % 16) + 3,
                           (src[sp] \div 16) * 256 + At(src, sp + 1))
         ELSE PglzItems(src, sp + 1, Append(dest, src[sp]), rawsize,
                        ctrl \div 2, ctrlc + 1)
    ELSE IF Len(dest) # rawsize \/ sp # Len(src) + 1
    THEN PglzFailed
    ELSE [ret |-> Len(dest), bytes |-> dest]

\* pglz_decompress(source, slen, dest, rawsize, true)
PglzDecompress(src, rawsize) == PglzItems(src, 1, << >>, rawsize, 0, 8)

Lz4Decompress(src, rawsize) ==
    IF src # << >> /\ Head(src) = 16 * (Len(src) - 1) /\ Len(src) - 1 <= 14
       /\ Len(src) - 1 <= rawsize
    THEN [ret |-> Len(src) - 1, bytes |-> Tail(src)]
    ELSE [ret |-> -1, bytes |-> << >>]

Decompress(cmid, src, rawsize) ==
    CASE cmid = TOAST_PGLZ_COMPRESSION_ID -> PglzDecompress(src, rawsize)
      [] cmid = TOAST_LZ4_COMPRESSION_ID  -> Lz4Decompress(src, rawsize)
      [] OTHER -> [ret |-> -1, bytes |-> << >>]

\* mem[i .. i + n - 1]
Slice(mem, i, n) == [k \in 1..n |-> At(mem, i + k - 1)]

\* parse_value(str, len): the value formatter extract_data was given
Formatted(r, fn, bytes, len) ==
    [ret |-> r.ret, cs |-> r.cs, exit |-> r.exit,
     fmt |-> <<[fn |-> fn, bytes |-> bytes, len |-> len]>>, held |-> {}]

\* Resources.  A result carries in held the buffers and file handles that
\* the call obtained and still holds when it returns.  Acquire adds what a
\* function obtains around the call that gave r, Release takes away what
\* it gives back afterwards; when the process ended in exit(1) inside the
\* call, nothing after the call is executed.
Acquire(r, what) == [r EXCEPT !.held = @ \cup what]
Release(r, what) == IF r.exit THEN r ELSE [r EXCEPT !.held = @ \ what]

\* the two formatters decode.c hands to extract_data; CopyAppendNumeric
\* comes with the bytes the heap holds after its copy of the payload
ParseEncode        == [fn |-> "CopyAppendEncode"]
ParseNumeric(heap) == [fn |-> "CopyAppendNumeric", heap |-> heap]

ParseValue(parse, cs, bytes, len) ==
    IF parse.fn = "CopyAppendNumeric"
    THEN Formatted(CopyAppendNumeric(cs, bytes, len, parse.heap), parse.fn, bytes, len)
    ELSE Formatted(CopyAppendEncode(cs, bytes, len), parse.fn, bytes, len)

\* DumpCompressedString from the decompressor's return (d) on
DumpDecompressed(cs, d, rawsize) ==
    IF d.ret # rawsize \/ d.ret < 0
    THEN [ret |-> d.ret, cs |-> cs, exit |-> FALSE, fmt |-> << >>, held |-> {}]
    ELSE [ret |-> d.ret, cs |-> CopyAppendEncode(cs, d.bytes, d.ret).cs,
          exit |-> FALSE,
          fmt |-> <<[fn |-> "CopyAppendEncode", bytes |-> d.bytes, len |-> d.ret]>>,
          held |-> {}]

\* DumpCompressedString(data, compressed_size, parse_value): the first word
\* of data is raw size and method; the text always goes through
\* CopyAppendEncode; the return value is the decompressor's
DumpCompressedString(cs, data, compressed_size) ==
    Release(Acquire(DumpDecompressed(cs,
                                     Decompress((LE32(data, 1) \div (2 ^ 30)) % 4,
                                                Slice(data, 5, compressed_size - 4),
                                                LE32(data, 1) % (2 ^ 30)),
                                     LE32(data, 1) % (2 ^ 30)),
                    {"decompress_tmp_buff"}),
            {"decompress_tmp_buff"})

\* what ReadStringFromToast returns, with the state the scan ended in
Fetched(r, ts) ==
    [ret |-> r.ret, cs |-> r.cs, exit |-> r.exit, fmt |-> r.fmt, held |-> r.held,
     scan |-> ts]

\* ReadStringFromToast from the return of DumpFileContents (scan state ts,
\* result 0) on
ReadToastValue(tp, ts, cs, parse) ==
    IF VARATT_EXTERNAL_IS_COMPRESSED(tp)
    THEN Fetched(DumpCompressedString(cs, ts.value, tp.extsize), ts)
    ELSE Fetched(ParseValue(parse, cs, Slice(ts.value, 1, tp.extsize), tp.extsize), ts)

\* ReadStringFromToast for the pointer tp once the sibling file f is open
ReadToastFile(tp, f, cs, parse, env) ==
    ReadToastValue(tp,
                   ToastScan(ToastStartAt(tp.va_rawsize, env), f, 1, tp.va_valueid,
                             tp.extsize, env.bsz, env.ma, env.opts, env.iopts),
                   cs, parse)

\* fopen(toast_relation_filename, "rb") succeeds
ToastFileOpens(files, relid) == relid \in DOMAIN files

\* ReadStringFromToast(buffer, buff_size, out_size, parse_value) for the
\* on-disk pointer tp
ReadOnDisk(tp, cs, parse, env) ==
    IF ToastFileOpens(env.toastFiles, tp.va_toastrelid)
    THEN Release(Acquire(ReadToastFile(tp, env.toastFiles[tp.va_toastrelid], cs,
                                       parse, env),
                         {"toast_relation_path", "toast_rel_fp", "toast_data"}),
                 {"toast_data", "toast_rel_fp", "toast_relation_path"})
    ELSE Release(Acquire([ret |-> -1, cs |-> cs, exit |-> FALSE, fmt |-> << >>,
                          held |-> {}, scan |-> NoScan],
                         {"toast_relation_path"}),
                 {"toast_relation_path"})

\* ReadStringFromToast(buffer, buff_size, out_size, parse_value) for the
\* external pointer at mem[q]; env holds the globals and the sibling files.
\* scan is the state the nested DumpFileContents ended in (NoScan: no scan).
ReadStringFromToast(mem, q, cs, parse, env) ==
    IF At(mem, q + 1) = VARTAG_ONDISK
    THEN ReadOnDisk(ToastPointer(mem, q), cs, parse, env)
    ELSE [ret |-> 0, cs |-> CopyAppend(cs, STR_TOASTED_IN_MEMORY), exit |-> FALSE,
          fmt |-> << >>, held |-> {},
          scan |-> NoScan]

RECURSIVE ZeroRun(_, _)
\* the number of consecutive 0x00 bytes from mem[i] on
ZeroRun(mem, i) ==
    IF i > Len(mem) \/ mem[i] # 0 THEN 0 ELSE 1 + ZeroRun(mem, i + 1)

\* a sentinel that ignores tag and method
ToastedToken_in_memory(mem, q) == STR_TOASTED_IN_MEMORY

\* the sentinel extract_data appends for an external pointer it does not fetch
ToastedToken(mem, q) ==
    IF At(mem, q + 1) = VARTAG_ONDISK
    THEN LET tp == ToastPointer(mem, q)
         IN IF VARATT_EXTERNAL_IS_COMPRESSED(tp)
            THEN CASE tp.method = TOAST_PGLZ_COMPRESSION_ID -> STR_TOASTED_PGLZ
                   [] tp.method = TOAST_LZ4_COMPRESSION_ID  -> STR_TOASTED_LZ4
                   [] OTHER -> STR_TOASTED_UNKNOWN
            ELSE STR_TOASTED_UNCOMPRESSED
    ELSE STR_TOASTED_IN_MEMORY

\* extract_data(buffer, buff_size, out_size, parse_value) with buffer at
\* mem[p] and buff_size = n.  mem holds the bytes that follow the buffer as
\* well: the padding loop tests *buffer before it tests buff_size.
\* The result: ret and out_size as the code leaves them, the COPY line, exit
\* (the process ended in exit(1)), and for the record the padding skipped,
\* the form recognised, the payload length handed to parse_value and the
\* state the nested TOAST scan ended in.
VarFail(r, cs, padding, form) ==
    [ret |-> r, out_size |-> 0, cs |-> cs, exit |-> FALSE, fmt |-> << >>,
     held |-> {}, padding |-> padding,
     form |-> form, plen |-> 0, scan |-> NoScan]

\* *out_size = padding + len; return result
VarResult(r, scan, padding, len, form, plen) ==
    [ret |-> r.ret, out_size |-> padding + len, cs |-> r.cs, exit |-> r.exit,
     fmt |-> r.fmt, held |-> r.held,
     padding |-> padding, form |-> form, plen |-> plen, scan |-> scan]

FetchedResult(r, padding, len) == VarResult(r, r.scan, padding, len, "external", 0)

\* the branch for 0x01: a TOAST pointer of len bytes
ExtractExternal(mem, q, bsize, padding, cs, parse, env, len) ==
    IF ULt(bsize, len) THEN VarFail(-1, cs, padding, "external")
    ELSE IF "BLOCK_DECODE_TOAST" \in env.opts
    THEN FetchedResult(ReadStringFromToast(mem, q, cs, parse, env), padding, len)
    ELSE VarResult([ret |-> 0, cs |-> CopyAppend(cs, ToastedToken(mem, q)),
                    exit |-> FALSE, fmt |-> << >>, held |-> {}],
                   NoScan, padding, len, "external", 0)

\* the branch for a 1-byte header of total length len
ExtractShort(mem, q, bsize, padding, cs, parse, len) ==
    IF ULt(bsize, len) THEN VarFail(-1, cs, padding, "short1b")
    ELSE VarResult(ParseValue(parse, cs, Slice(mem, q + 1, len - 1), len - 1),
                   NoScan, padding, len, "short1b", len - 1)

\* the branch for a 4-byte header, uncompressed, of total length len
ExtractInline(mem, q, bsize, padding, cs, parse, len) ==
    IF ULt(bsize, len) THEN VarFail(-1, cs, padding, "inline4b")
    ELSE VarResult(ParseValue(parse, cs, Slice(mem, q + 4, len - 4), len - 4),
                   NoScan, padding, len, "inline4b", len - 4)

\* the compressed branch without the test of what the decompressor returned
ExtractCompressed_unchecked(bsize, padding, cs, parse, len, rawsize, d) ==
    IF ULt(bsize, len) THEN VarFail(-1, cs, padding, "compressed")
    ELSE VarResult(ParseValue(parse, cs, d.bytes, rawsize),
                   NoScan, padding, len, "compressed", rawsize)

\* the compressed branch with the scratch buffer not freed when the
\* decompression fails
ExtractCompressed_leaky(bsize, padding, cs, parse, len, rawsize, d) ==
    IF ULt(bsize, len) THEN VarFail(-1, cs, padding, "compressed")
    ELSE IF d.ret # rawsize \/ d.ret < 0
    THEN Acquire(VarResult([ret |-> 0, cs |-> CopyAppend(cs, STR_INLINE_CORRUPTED),
                            exit |-> FALSE, fmt |-> << >>, held |-> {}],
                           NoScan, padding, len, "compressed", 0),
                 {"decompress_tmp_buff"})
    ELSE Release(Acquire(VarResult(ParseValue(parse, cs, d.bytes, rawsize),
                                   NoScan, padding, len, "compressed", rawsize),
                         {"decompress_tmp_buff"}),
                 {"decompress_tmp_buff"})

\* the branch for a 4-byte header, compressed: d is what the decompressor
\* returned for a raw size of rawsize
ExtractCompressed(bsize, padding, cs, parse, len, rawsize, d) ==
    IF ULt(bsize, len) THEN VarFail(-1, cs, padding, "compressed")
    ELSE IF d.ret # rawsize \/ d.ret < 0
    THEN Release(Acquire(VarResult([ret |-> 0,
                                    cs |-> CopyAppend(cs, STR_INLINE_CORRUPTED),
                                    exit |-> FALSE, fmt |-> << >>, held |-> {}],
                                   NoScan, padding, len, "compressed", 0),
                         {"decompress_tmp_buff"}),
                 {"decompress_tmp_buff"})
    ELSE Release(Acquire(VarResult(ParseValue(parse, cs, d.bytes, rawsize),
                                   NoScan, padding, len, "compressed", rawsize),
                         {"decompress_tmp_buff"}),
                 {"decompress_tmp_buff"})

\* VARDATA_COMPRESSED_GET_EXTSIZE / _GET_COMPRESS_METHOD of a tcinfo word
CompressedRawSize(word) == word % (2 ^ 30)
CompressedMethod(word)  == (word \div (2 ^ 30)) % 4

\* extract_data past the padding: the header byte is b = mem[q]
ExtractHeader(mem, q, bsize, padding, cs, parse, env, b) ==
    IF VARATT_IS_1B_E(b)
    THEN ExtractExternal(mem, q, bsize, padding, cs, parse, env,
                         VARSIZE_EXTERNAL(mem, q))
    ELSE IF VARATT_IS_1B(b)
    THEN ExtractShort(mem, q, bsize, padding, cs, parse, VARSIZE_1B(b))
    ELSE IF VARATT_IS_4B_U(b) /\ ~ULt(bsize, 4)
    THEN ExtractInline(mem, q, bsize, padding, cs, parse, VARSIZE_4B(mem, q))
    ELSE IF VARATT_IS_4B_C(b) /\ ~ULt(bsize, 8)
    THEN ExtractCompressed(bsize, padding, cs, parse, VARSIZE_4B(mem, q),
                           CompressedRawSize(LE32(mem, q + 4)),
                           Decompress(CompressedMethod(LE32(mem, q + 4)),
                                      Slice(mem, q + 8, VARSIZE_4B(mem, q) - 8),
                                      CompressedRawSize(LE32(mem, q + 4))))
    ELSE VarFail(-9, cs, padding, "none")

\* the padding loop met zeros 0x00 bytes from mem[p] on
ExtractPadded(mem, p, n, cs, parse, env, zeros) ==
    IF ULt(n, zeros) THEN VarFail(-1, cs, n, "padding")
    ELSE ExtractHeader(mem, p + zeros, n - zeros, zeros, cs, parse, env,
                       At(mem, p + zeros))

ExtractData(mem, p, n, cs, parse, env) ==
    ExtractPadded(mem, p, n, cs, parse, env, ZeroRun(mem, p))

(***************************************************************************)
(* The attribute decoders (decode.c).  A decoder is called on               *)
(* (buffer, buff_size) with buffer = mem[p] at address addr; its result is  *)
(* [ret, out_size, cs, exit] and, for the record, what extract_data found.  *)
(***************************************************************************)
Types == {"int", "bool", "char", "text", "numeric", "~"}

NotVarlena(ret, out_size, cs) ==
    [ret |-> ret, out_size |-> out_size, cs |-> cs, exit |-> FALSE,
     fmt |-> << >>, held |-> {}, padding |-> 0, form |-> "fixed", plen |-> 0,
     scan |-> NoScan]

\* decode_int(buffer, buff_size, out_size)
decode_int(mem, p, addr, n, cs) ==
    LET delta == TypeAlign(4, addr) - addr
    IN IF ULt(n, delta) THEN NotVarlena(-1, 0, cs)
       ELSE IF ULt(n - delta, 4) THEN NotVarlena(-2, 0, cs)
       ELSE NotVarlena(0, 4 + delta, CopyAppend(cs, FmtInt32(LE32(mem, p + delta))))

\* decode_bool(buffer, buff_size, out_size)
decode_bool(mem, p, n, cs) ==
    IF ULt(n, 1) THEN NotVarlena(-1, 0, cs)
    ELSE NotVarlena(0, 1, CopyAppend(cs, IF At(mem, p) # 0 THEN STR_TRUE ELSE STR_FALSE))

\* decode_char(buffer, buff_size, out_size)
decode_char(mem, p, n, cs) ==
    IF ULt(n, 1) THEN NotVarlena(-2, 0, cs)
    ELSE NotVarlena(0, 1, CopyAppendEncode(cs, <<At(mem, p)>>, 1).cs)

\* a decode_ignore that takes nothing
decode_ignore_takes_nothing(n, cs) == NotVarlena(0, 0, cs)

\* decode_ignore(buffer, buff_size, out_size): takes all that is left and
\* appends nothing
decode_ignore(n, cs) == NotVarlena(0, n, cs)

\* decode_string(buffer, buff_size, out_size)
decode_string(mem, p, n, cs, env) == ExtractData(mem, p, n, cs, ParseEncode, env)

\* decode_numeric(buffer, buff_size, out_size)
decode_numeric(mem, p, n, cs, env) ==
    ExtractData(mem, p, n, cs, ParseNumeric(env.heap), env)

(***************************************************************************)
(* Dates (decode_date, j2date).                                             *)
(***************************************************************************)
POSTGRES_EPOCH_JDATE == 2451545
MONTHS_PER_YEAR      == 12
PG_INT32_MAX         == 2147483647
PG_INT32_MIN         == (-PG_INT32_MAX) - 1
STR_INFINITY         == <<105, 110, 102, 105, 110, 105, 116, 121>>
STR_MINUS_INFINITY   == <<45>> \o STR_INFINITY
STR_BC               == <<32, 66, 67>>

\* the word a + k for a word a and 0 <= k < 2^31, as the machine adds
WAdd(a, k) ==
    IF a > PG_INT32_MAX - k
    THEN (((a - PG_INT32_MAX) - 1) + (k - PG_INT32_MAX)) - 1
    ELSE a + k

\* the word w read as unsigned int, less 2^31 (for w < 0)
UHigh(w) == (w + PG_INT32_MAX) + 1

\* w / m and w % m for the word w read as unsigned int and 0 < m < 2^23
UDiv(w, m) ==
    IF w >= 0 THEN w \div m
    ELSE (UHigh(w) \div m) + (PG_INT32_MAX \div m)
         + (((UHigh(w) % m) + (PG_INT32_MAX % m) + 1) \div m)
UMod(w, m) ==
    IF w >= 0 THEN w % m
    ELSE ((UHigh(w) % m) + (PG_INT32_MAX % m) + 1) % m

\* j2date from "quad = julian * 2141 / 65536" on, for the year y
J2DateOfYear(y, julian) ==
    [year  |-> y - 4800,
     month |-> ((((julian * 2141) \div 65536) + 10) % MONTHS_PER_YEAR) + 1,
     day   |-> julian - ((7834 * ((julian * 2141) \div 65536)) \div 256)]

\* j2date from "y = julian * 4 / 1461" on: quad and julian are small
J2DateInQuad(quad, julian) ==
    J2DateOfYear(((julian * 4) \div 1461) + (quad * 4),
                 (IF (julian * 4) \div 1461 # 0
                  THEN ((julian + 305) % 365) ELSE ((julian + 306) % 366)) + 123)

\* j2date from "julian += 60 + quad * 3 + extra / 146097" on
J2DateShifted(julian) == J2DateInQuad(UDiv(julian, 1461), UMod(julian, 1461))

\* j2date from "quad = julian / 146097" on; julian - quad * 146097 is the
\* remainder
J2DateCentury(julian) ==
    J2DateShifted(WAdd(julian, 60 + (UDiv(julian, 146097) * 3)
                                  + (((UMod(julian, 146097) * 4) + 3) \div 146097)))

\* j2date(jd, &year, &month, &day): julian is an unsigned int
j2date(jd) == J2DateCentury(WAdd(jd, 32044))

\* printf("%0<w>d") of v
ZeroPad(str, w) == [k \in 1..(w - Len(str)) |-> 48] \o str
FmtZeroPadded(v, w) ==
    IF v < 0 THEN <<45>> \o ZeroPad(Digits(-v), w - 1) ELSE ZeroPad(Digits(v), w)

\* "%04d-%02d-%02d%s" of decode_date
DateText(ymd) ==
    FmtZeroPadded(IF ymd.year <= 0 THEN (-ymd.year) + 1 ELSE ymd.year, 4)
    \o <<45>> \o FmtZeroPadded(ymd.month, 2)
    \o <<45>> \o FmtZeroPadded(ymd.day, 2)
    \o (IF ymd.year <= 0 THEN STR_BC ELSE << >>)

\* decode_date from "d = *(int32 *) buffer" on.  d + POSTGRES_EPOCH_JDATE
\* is an int addition: it is taken here as the two's complement sum.
DateOf(d, cs) ==
    IF d = PG_INT32_MIN THEN CopyAppend(cs, STR_MINUS_INFINITY)
    ELSE IF d = PG_INT32_MAX THEN CopyAppend(cs, STR_INFINITY)
    ELSE CopyAppend(cs, DateText(j2date(WAdd(d, POSTGRES_EPOCH_JDATE))))

\* decode_date(buffer, buff_size, out_size)
decode_date(mem, p, addr, n, cs) ==
    IF ULt(n, TypeAlign(4, addr) - addr) THEN NotVarlena(-1, 0, cs)
    ELSE IF ULt(n - (TypeAlign(4, addr) - addr), 4) THEN NotVarlena(-2, 0, cs)
    ELSE NotVarlena(0, 4 + (TypeAlign(4, addr) - addr),
                    DateOf(LE32(mem, p + (TypeAlign(4, addr) - addr)), cs))

\* callbacks[curr_attr](data, size, &processed_size)
Callback(type, mem, p, addr, n, cs, env) ==
    CASE type = "int"  -> decode_int(mem, p, addr, n, cs)
      [] type = "bool" -> decode_bool(mem, p, n, cs)
      [] type = "char" -> decode_char(mem, p, n, cs)
      [] type = "text" -> decode_string(mem, p, n, cs, env)
      [] type = "numeric" -> decode_numeric(mem, p, n, cs, env)
      [] type = "date" -> decode_date(mem, p, addr, n, cs)
      [] type = "~"    -> decode_ignore(n, cs)

(***************************************************************************)
(* FormatDecode(tupleData, tupleSize), one pass of its loop at a time.  Its *)
(* state is the record                                                      *)
(*   pc         "loop" in the attribute loop, "done" returned, "exited"     *)
(*              the process ended inside a decoder                          *)
(*   curr_attr, size, dpos, cs   the locals and copyString                  *)
(*   out        the lines printed: [kind |-> "COPY" or "Error", text]       *)
(*   log        one entry per attribute visited: what happened to it        *)
(***************************************************************************)

\* the state after CopyClear() and the initialisation of data and size
FormatDecodeStart(t) ==
    [pc |-> "loop", curr_attr |-> 0, size |-> t.len - t.hoff, dpos |-> 0,
     cs |-> << >>, out |-> << >>, log |-> << >>, scan |-> NoScan]

\* att_isnull(curr_attr, t_bits) under HEAP_HASNULL
AttIsNull(t, a) == t.hasnull /\ (a + 1) \in t.nulls

ErrorLine(cs) == [kind |-> "Error", text |-> cs]

\* the log entry of a decoder call that returned r
CallEntry(st, type, r) ==
    [kind |-> "call", type |-> type, n |-> st.size, at |-> st.dpos + 1,
     ret |-> r.ret, out_size |-> r.out_size, exit |-> r.exit, fmt |-> r.fmt,
     held |-> r.held,
     padding |-> r.padding, form |-> r.form, plen |-> r.plen,
     before |-> st.cs, after |-> r.cs]

\* what the nested scans left behind: those of this tuple so far (before),
\* then the one of the call that has just returned (scan), whose failures
\* add to the earlier ones
ScanAfter(before, scan) ==
    IF ~Scanned(scan) THEN before
    ELSE IF Scanned(before) THEN [scan EXCEPT !.fails = @ \cup before.fails]
    ELSE scan

\* the globals a decoder finds once the nested scans so far are over
EnvAfter(env, scan) ==
    IF Scanned(scan)
    THEN [env EXCEPT !.btf = scan.btf, !.poff = scan.poff, !.stype = scan.stype]
    ELSE env

\* the loop body from the callback's return on: r is what it returned
FormatDecodeCalled(st, r, e) ==
    IF r.exit
    THEN [st EXCEPT !.pc = "exited", !.cs = r.cs, !.log = Append(@, e),
                    !.scan = ScanAfter(@, r.scan)]
    ELSE IF r.ret < 0
    THEN [st EXCEPT !.pc = "done", !.cs = r.cs,
                    !.out = Append(@, ErrorLine(r.cs)),
                    !.log = Append(@, e),
                    !.scan = ScanAfter(@, r.scan)]
    ELSE [st EXCEPT !.cs = r.cs,
                    !.size = @ - r.out_size,
                    !.dpos = @ + r.out_size,
                    !.curr_attr = @ + 1,
                    !.log = Append(@, e),
                    !.scan = ScanAfter(@, r.scan)]

FormatDecodeReturned(st, type, r) == FormatDecodeCalled(st, r, CallEntry(st, type, r))

\* one pass of the loop for an attribute of the given type
FormatDecodeAttribute(st, type, t, env) ==
    IF AttIsNull(t, st.curr_attr)
    THEN [st EXCEPT !.cs = CopyAppend(@, STR_NULL),
                    !.curr_attr = @ + 1,
                    !.log = Append(@, [kind |-> "null", type |-> type])]
    ELSE IF st.size = 0
    THEN [st EXCEPT !.pc = "done",
                    !.out = Append(@, ErrorLine(st.cs)),
                    !.log = Append(@, [kind |-> "nobytes", type |-> type])]
    ELSE FormatDecodeReturned(st, type,
             Callback(type, t.data \o t.beyond, st.dpos + 1,
                      t.off + t.hoff + st.dpos, st.size, st.cs,
                      EnvAfter(env, st.scan)))

\* one pass of the loop, or the code after it when the loop is over
FormatDecodeStep(st, cbs, t, env) ==
    IF st.curr_attr >= Len(cbs)
    THEN \* after the loop
         IF st.size # 0
         THEN [st EXCEPT !.pc = "done", !.out = Append(@, ErrorLine(st.cs))]
         ELSE [st EXCEPT !.pc = "done",
                         !.out = Append(@, [kind |-> "COPY", text |-> st.cs]),
                         !.cs = << >>]                          \* CopyFlush
    ELSE FormatDecodeAttribute(st, cbs[st.curr_attr + 1], t, env)

RECURSIVE FormatDecodeRun(_, _, _, _)
\* FormatDecode from state st to its end
FormatDecodeRun(st, cbs, t, env) ==
    IF st.pc # "loop" THEN st
    ELSE FormatDecodeRun(FormatDecodeStep(st, cbs, t, env), cbs, t, env)

\* FormatDecode(tupleData, tupleSize)
FormatDecode(cbs, t, env) == FormatDecodeRun(FormatDecodeStart(t), cbs, t, env)

(***************************************************************************)
(* Inputs.  A tuple's data area is a concatenation of fields taken from a   *)
(* menu; an external pointer comes in the variants of ExtVariants.          *)
(***************************************************************************)
\* the external value the inputs point to
ToastTarget == [relid |-> 16384, valueid |-> 42]

\* an 18-byte on-disk pointer: header 0x01, tag, varatt_external
ExtOnDisk(rawsize, extsize, method) ==
    <<1, VARTAG_ONDISK>> \o Bytes32(rawsize) \o Bytes32(extsize + (IF method >= 2 THEN method - 4 ELSE method) * (2 ^ 30))
       \o Bytes32(ToastTarget.valueid) \o Bytes32(ToastTarget.relid)

\* a 10-byte indirect pointer: header 0x01, tag, a pointer
ExtIndirect == <<1, VARTAG_INDIRECT>> \o Bytes32(0) \o Bytes32(0)

ExtVariants == {"plain", "pglz", "lz4", "indirect"}

Field(tag, variant) ==
    CASE tag = "pad"   -> <<0>>                  \* an alignment byte
      [] tag = "true"  -> <<2>>                  \* a bool; no varlena header
      [] tag = "empty" -> <<3>>                  \* short varlena, no payload
      [] tag = "a"     -> <<5, 97>>              \* short varlena "a"
      [] tag = "b4"    -> <<20, 0, 0, 0, 98>>    \* 4-byte header, length 5, "b"
      [] tag = "bad4"  -> <<8, 0, 0, 0>>         \* 4-byte header, length 2
      [] tag = "ext"   ->
           CASE variant = "plain"    -> ExtOnDisk(7, 3, 0)
             [] variant = "pglz"     -> ExtOnDisk(100, 6, TOAST_PGLZ_COMPRESSION_ID)
             [] variant = "lz4"      -> ExtOnDisk(100, 6, TOAST_LZ4_COMPRESSION_ID)
             [] variant = "indirect" -> ExtIndirect

FieldTags == {"pad", "true", "empty", "a", "b4", "bad4", "ext"}

RECURSIVE TupleData(_, _)
TupleData(tags, variant) ==
    IF tags = << >> THEN << >>
    ELSE Field(Head(tags), variant) \o TupleData(Tail(tags), variant)

\* a heap item at offset off whose data area is data
HeapItem(off, natts, hasnull, nulls, data, beyond) ==
    [flags |-> LP_NORMAL, off |-> off, len |-> 24 + Len(data), xmax |-> 0,
     isize |-> 0, natts |-> natts, hoff |-> 24, hasnull |-> hasnull,
     nulls |-> nulls, data |-> data, beyond |-> beyond]

\* a TOAST tuple (chunk_id, chunk_seq, chunk_data) for value valueid
ChunkItem(off, valueid, seq, bytes) ==
    HeapItem(off, 3, FALSE, {},
             Bytes32(valueid) \o Bytes32(seq) \o Bytes32(4 * (VARHDRSZ + Len(bytes)))
                \o bytes, <<0, 0>>)

\* a full heap page of size bsz holding items
HeapPage(bsz, items) ==
    [nbytes |-> bsz, lower |-> SizeOfPageHeaderData + SizeofItemIdData * Len(items),
     upper |-> bsz - 512, special |-> bsz, version |-> PG_PAGE_LAYOUT_VERSION,
     psize |-> bsz, specval |-> 0, ptype |-> 0, btflags |-> 0, cksum_ok |-> TRUE,
     items |-> items]

\* the globals as the nested calls see them
Env == [toastFiles |-> toastFiles, bsz |-> blockSize, ma |-> maxalign,
        opts |-> blockOptions, iopts |-> itemOptions,
        btf |-> bytesToFormat, poff |-> pageOffset, stype |-> specialType]

\* what the heap may hold in the 4 bytes after a malloc'ed block
Heaps == {<<0, 0, 0, 0>>, <<7, 0, 1, 0>>}

\* the globals and the heap as a decoder sees them
HeapEnv(heap) == [heap |-> heap] @@ Env

(***************************************************************************)
(* SpecDecode: FormatDecode on one tuple.                                   *)
(***************************************************************************)
Types3 == {"bool", "text", "~"}

\* FormatGinBlock is not running
GinIdle == [pc |-> "none"]

\* ParseAttributeTypesString is not running
ParserIdle == [pc |-> "none"]

DriverIdle ==
    /\ file = << >> /\ dpc = "idle" /\ currentBlock = 0 /\ x = 0
    /\ hdr = "none" /\ errs = {}

ToastIdle ==
    /\ tpc = "idle" /\ toastIn = << >> /\ toastBlock = 0 /\ toastX = 0
    /\ toastValue = << >> /\ toastRead = 0 /\ toastOvf = FALSE

DecodeIdle ==
    /\ callbacks = << >> /\ tup = "none" /\ pc = "idle" /\ curr_attr = 0
    /\ size = 0 /\ dpos = 0 /\ copyString = << >> /\ out = << >> /\ log = << >>

\* the one sibling relation: value 42 is the three bytes "xyz" in one chunk
OneChunkFile == <<HeapPage(8192, <<ChunkItem(8000, ToastTarget.valueid, 0, <<120, 121, 122>>)>>)>>

InitDecode ==
    /\ gin = GinIdle /\ parser = ParserIdle
    /\ DriverIdle /\ ToastIdle
    /\ maxalign = 8 /\ blockSize = 8192 /\ bytesToFormat = 8192
    /\ specialType = "NONE" /\ pageOffset = 0 /\ exitCode = 0
    /\ itemOptions = {}
    /\ toastFiles = (ToastTarget.relid :> OneChunkFile)
    /\ \E toast \in BOOLEAN, bey \in {<<0, 0>>, <<7, 0>>} :
         \E cbs \in SeqsUpTo(Types3, MaxAttrs) \ {<< >>},
            tags \in SeqsUpTo(FieldTags, MaxSegs),
            variant \in ExtVariants,
            nulls \in {{}, {1}, {2}} :
           /\ toast => bey = <<0, 0>>
           /\ (\A k \in 1..Len(tags) : tags[k] # "ext") => variant = "plain"
           /\ blockOptions = {"BLOCK_DECODE"}
                             \cup (IF toast THEN {"BLOCK_DECODE_TOAST"} ELSE {})
           /\ callbacks = cbs
           /\ tup = HeapItem(8000, Len(cbs), nulls # {}, nulls,
                             TupleData(tags, variant), bey)
    /\ pc = "start" /\ curr_attr = 0 /\ size = 0 /\ dpos = 0
    /\ copyString = << >> /\ out = << >> /\ log = << >>

DecodeState ==
    [pc |-> pc, curr_attr |-> curr_attr, size |-> size, dpos |-> dpos,
     cs |-> copyString, out |-> out, log |-> log, scan |-> NoScan]

\* the globals a nested scan assigns, as FormatDecode leaves them in state
\* st: a failure recorded in the nested scan sets exitCode = 1
SetScanned(st) ==
    IF Scanned(st.scan)
    THEN /\ bytesToFormat' = st.scan.btf
         /\ pageOffset' = st.scan.poff
         /\ specialType' = st.scan.stype
         /\ exitCode' = IF st.scan.fails # {} THEN 1 ELSE exitCode
    ELSE UNCHANGED <<bytesToFormat, pageOffset, specialType, exitCode>>

SetDecodeState(st) ==
    /\ pc' = st.pc /\ curr_attr' = st.curr_attr /\ size' = st.size
    /\ dpos' = st.dpos /\ copyString' = st.cs /\ out' = st.out /\ log' = st.log
    /\ SetScanned(st)
    /\ UNCHANGED <<callbacks, tup, blockOptions, itemOptions, maxalign, blockSize>>

\* FormatDecode is entered: CopyClear(), data and size are set
FormatDecodeEnter ==
    /\ pc = "start"
    /\ SetDecodeState(FormatDecodeStart(tup))
    /\ UNCHANGED <<toastFiles, gin, parser, driverVars, toastVars>>

\* one pass of the attribute loop
FormatDecodeAttr ==
    /\ pc = "loop" /\ curr_attr < Len(callbacks)
    /\ \E heap \in Heaps :
         SetDecodeState(FormatDecodeStep(DecodeState, callbacks, tup, HeapEnv(heap)))
    /\ UNCHANGED <<toastFiles, gin, parser, driverVars, toastVars>>

\* the loop is over: the trailing-bytes test and CopyFlush()
FormatDecodeLeave ==
    /\ pc = "loop" /\ curr_attr >= Len(callbacks)
    /\ SetDecodeState(FormatDecodeStep(DecodeState, callbacks, tup, Env))
    /\ UNCHANGED <<toastFiles, gin, parser, driverVars, toastVars>>

NextDecode == FormatDecodeEnter \/ FormatDecodeAttr \/ FormatDecodeLeave

SpecDecode == InitDecode /\ [][NextDecode]_vars

(***************************************************************************)
(* Properties of FormatDecode (SpecDecode).                                 *)
(***************************************************************************)
Terminated == pc \in {"done", "exited"}

CopyPrinted  == \E i \in 1..Len(out) : out[i].kind = "COPY"
ErrorPrinted == \E i \in 1..Len(out) : out[i].kind = "Error"

\* the attribute of log entry e was null or decoded without error
EntryDecoded(e) ==
    \/ e.kind = "null"
    \/ e.kind = "call" /\ e.ret >= 0 /\ ~e.exit

\* the first k attributes were visited and each was null or decoded
PrefixDecoded(k) ==
    /\ Len(log) >= k
    /\ \A i \in 1..k : EntryDecoded(log[i])

AllDecoded == PrefixDecoded(Len(callbacks))

RECURSIVE TabCount(_)
\* the number of tab characters in a line
TabCount(line) ==
    IF line = << >> THEN 0
    ELSE (IF Head(line) = TAB THEN 1 ELSE 0) + TabCount(Tail(line))

\* the COPY line printed (there is at most one per tuple)
CopyLine == out[CHOOSE i \in 1..Len(out) : out[i].kind = "COPY"].text

\* C3: once FormatDecode is over for a tuple, a COPY line was printed iff
\* every registered attribute was null or decoded without error and zero
\* bytes remain; in every other case an error line was printed and no COPY
\* line.
C3_CopyIffAllDecodedElseError ==
    Terminated =>
        /\ CopyPrinted <=> (AllDecoded /\ size = 0)
        /\ ~(AllDecoded /\ size = 0) => (ErrorPrinted /\ ~CopyPrinted)

\* C3, when FormatDecode returns to its caller: the same statement holds
\* for every run of FormatDecode that returns.
C3_WhenFormatDecodeReturns ==
    pc = "done" =>
        /\ CopyPrinted <=> (AllDecoded /\ size = 0)
        /\ ~(AllDecoded /\ size = 0) => (ErrorPrinted /\ ~CopyPrinted)

\* a run where an attribute failed and one where all decoded
C3_Witness ==
    /\ pc = "done" /\ Len(callbacks) = 2 /\ Len(log) = 2
    /\ EntryDecoded(log[1]) /\ ~EntryDecoded(log[2]) /\ ErrorPrinted

\* C4: the COPY line of a tuple with N attributes holds exactly N - 1 tabs,
\* whichever renderings are empty and wherever they stand.
C4_TabsBetweenRenderings ==
    CopyPrinted => TabCount(CopyLine) = Len(callbacks) - 1

\* C4, away from the failing case: when the first attribute's rendering is
\* not empty and no attribute is ~, the line holds exactly N - 1 tabs.
C4_TabsWhenFirstRenderingNotEmpty ==
    (/\ CopyPrinted
     /\ \A i \in 1..Len(callbacks) : callbacks[i] # "~"
     /\ log[1].kind = "call" => log[1].after # log[1].before)
    => TabCount(CopyLine) = Len(callbacks) - 1

\* C5 as amended: with ~ last in the type list, every attribute before it
\* null or decoded, ~ itself not null and at least one byte left, the COPY
\* line is printed, ~ takes all the bytes left and appends nothing; with no
\* byte left the error line is printed and no COPY line.
C5_IgnoreAbsorbsRest ==
    LET N == Len(callbacks)
    IN (/\ Terminated
        /\ callbacks[N] = "~"
        /\ PrefixDecoded(N - 1)
        /\ ~AttIsNull(tup, N - 1))
       => /\ Len(log) = N
          /\ log[N].kind = "call" =>
                /\ log[N].n # 0
                /\ log[N].out_size = log[N].n
                /\ log[N].after = log[N].before
                /\ size = 0
                /\ CopyPrinted /\ ~ErrorPrinted
          /\ log[N].kind = "nobytes" =>
                /\ size = 0
                /\ ErrorPrinted /\ ~CopyPrinted
          /\ log[N].kind \in {"call", "nobytes"}

\* ~ reached with bytes left after a decoded attribute, and the line printed
C5_Witness ==
    /\ pc = "done" /\ Len(callbacks) = 2 /\ callbacks[2] = "~" /\ Len(log) = 2
    /\ log[1].kind = "call" /\ log[2].kind = "call" /\ log[2].n > 0
    /\ CopyPrinted

\* C5 as stated: with ~ last in the type list and every attribute before it
\* null or decoded, the COPY line is printed, for zero or more bytes left.
C5_IgnoreAbsorbsZeroOrMore ==
    (/\ Terminated
     /\ callbacks[Len(callbacks)] = "~"
     /\ PrefixDecoded(Len(callbacks) - 1))
    => CopyPrinted

(***************************************************************************)
(* Properties of extract_data as FormatDecode calls it (SpecDecode).        *)
(***************************************************************************)
\* the memory FormatDecode's decoders read
TupleMem == tup.data \o tup.beyond

\* the successful calls of the varlena resolver so far
VarlenaSuccess(e) == e.kind = "call" /\ e.type = "text" /\ e.ret >= 0 /\ ~e.exit

\* the physical size of the varlena whose header byte is mem[q]: the width
\* of an external pointer by its tag, b >> 1 for a short header, the length
\* word for a 4-byte header
PhysicalSize(mem, q) ==
    LET b   == At(mem, q)
        tag == At(mem, q + 1)
    IN IF b = 1
       THEN (IF tag = 18 THEN 18 ELSE IF tag \in {1, 2, 3} THEN 10 ELSE 2)
       ELSE IF b % 2 = 1 THEN b \div 2
       ELSE (LE32(mem, q) \div 4) % (2 ^ 30)

\* the same with every external pointer 18 bytes wide
PhysicalSize18(mem, q) ==
    IF At(mem, q) = 1 THEN 18 ELSE PhysicalSize(mem, q)

\* C9 as amended: every successful call of the varlena resolver reports
\* consumed = zero bytes skipped + physical size of the varlena, where an
\* external pointer is 18 bytes wide on disk and 10 bytes wide with an
\* indirect or expanded tag; consumed <= n, and the bytes FormatDecode has
\* left never go below zero.
C9_ConsumedIsPaddingPlusPhysical ==
    /\ \A i \in 1..Len(log) :
          VarlenaSuccess(log[i]) =>
             LET z == ZeroRun(TupleMem, log[i].at)
             IN /\ log[i].out_size = z + PhysicalSize(TupleMem, log[i].at + z)
                /\ log[i].out_size <= log[i].n
    /\ pc # "start" => (size >= 0 /\ size <= tup.len - tup.hoff)

\* a call that skipped padding and then took a 4-byte-header varlena
C9_Witness ==
    \E i \in 1..Len(log) :
        /\ VarlenaSuccess(log[i])
        /\ log[i].padding = 1 /\ log[i].form = "inline4b" /\ log[i].out_size = 6
        /\ size = log[i].n - 6

\* C9 as stated: the same with the external pointer width 18 in every case.
C9_ConsumedWithExternalWidth18 ==
    \A i \in 1..Len(log) :
        VarlenaSuccess(log[i]) =>
           LET z == ZeroRun(TupleMem, log[i].at)
           IN /\ log[i].out_size = z + PhysicalSize18(TupleMem, log[i].at + z)
              /\ log[i].out_size <= log[i].n

\* the call of log entry e met an external pointer, TOAST resolution off:
\* header byte 0x01 after the padding, and the pointer fits in the buffer
ExternalNotFetched(e) ==
    /\ "BLOCK_DECODE_TOAST" \notin blockOptions
    /\ e.kind = "call" /\ e.type = "text"
    /\ LET q == e.at + ZeroRun(TupleMem, e.at)
       IN /\ At(TupleMem, q) = 1
          /\ At(TupleMem, q + 1) \in {1, 2, 3, 18}
          /\ PhysicalSize(TupleMem, q) <= e.n - ZeroRun(TupleMem, e.at)

\* the sentinel the pointer at mem[q] calls for
ExpectedToken(mem, q) ==
    IF At(mem, q + 1) = 18
    THEN LET rawsize == LE32(mem, q + 2)
             extinfo == LE32(mem, q + 6)
             method  == (extinfo \div (2 ^ 30)) % 4
         IN IF ULt(extinfo % (2 ^ 30), rawsize - 4)
            THEN (IF method = 0 THEN STR_TOASTED_PGLZ
                  ELSE IF method = 1 THEN STR_TOASTED_LZ4
                  ELSE STR_TOASTED_UNKNOWN)
            ELSE STR_TOASTED_UNCOMPRESSED
    ELSE STR_TOASTED_IN_MEMORY

\* C10 as amended: with TOAST resolution off, an external pointer makes the
\* resolver append (TOASTED,<method>) for an on-disk pointer or
\* (TOASTED IN MEMORY) for an indirect / expanded tag, return 0, and
\* consume the padding skipped plus 18 bytes for the on-disk pointer.
C10_ExternalSentinelConsumes18 ==
    \A i \in 1..Len(log) :
        ExternalNotFetched(log[i]) =>
           LET z == ZeroRun(TupleMem, log[i].at)
               q == log[i].at + z
           IN /\ log[i].ret = 0 /\ ~log[i].exit
              /\ log[i].after = (IF log[i].before = << >> THEN << >>
                                 ELSE log[i].before \o <<TAB>>)
                                \o ExpectedToken(TupleMem, q)
              /\ At(TupleMem, q + 1) = 18 => log[i].out_size = z + 18

\* a pglz on-disk pointer decoded with TOAST resolution off
C10_Witness ==
    \E i \in 1..Len(log) :
        /\ ExternalNotFetched(log[i])
        /\ At(TupleMem, log[i].at + 1) = 18
        /\ log[i].after = STR_TOASTED_PGLZ
        /\ log[i].out_size = 18

\* C10 as stated: the on-disk pointer, no padding before it, consumes
\* exactly 19 bytes.
C10_ExternalSentinelConsumes19 ==
    \A i \in 1..Len(log) :
        (/\ ExternalNotFetched(log[i])
         /\ At(TupleMem, log[i].at) = 1
         /\ At(TupleMem, log[i].at + 1) = 18)
        => log[i].out_size = 19

(***************************************************************************)
(* The dump of a relation file: main, DumpFileContents(isToast = false),    *)
(* FormatBlock and what it calls, one step at a time.  dpc is               *)
(*   "read"     DumpFileContents is about to fread() the next block         *)
(*   "format"   FormatBlock is entered                                      *)
(*   "header"   FormatHeader is about to run                                *)
(*   "items"    FormatItemBlock is at line pointer x                        *)
(*   "special"  FormatItemBlock is over                                     *)
(*   "next"     FormatBlock has returned                                    *)
(*   "return"   DumpFileContents is about to return to main                 *)
(*   "exit"     main has called exit(exitCode)                              *)
(*   "exited"   the process ended in exit(1) inside a decoder               *)
(***************************************************************************)
ThePage == file[currentBlock + 1]

\* record failures: each of them sets exitCode = 1
Fail(fs) ==
    /\ errs' = errs \cup fs
    /\ exitCode' = IF fs # {} THEN 1 ELSE exitCode

\* bytesToFormat = fread(block, 1, blockSize, fp)
ReadBlock ==
    /\ dpc = "read"
    /\ IF currentBlock < Len(file)
       THEN /\ bytesToFormat' = file[currentBlock + 1].nbytes
            /\ dpc' = "format"
       ELSE /\ bytesToFormat' = 0
            /\ dpc' = "return"
    /\ UNCHANGED <<blockOptions, itemOptions, maxalign, blockSize, specialType,
                   pageOffset, exitCode, file, currentBlock, x, hdr, errs,
                   toastFiles, gin, parser, toastVars, decodeVars>>

\* FormatBlock up to the choice between the raw dump and the interpretation
FormatBlockEnter ==
    /\ dpc = "format"
    /\ pageOffset' = blockSize * currentBlock
    /\ specialType' = GetSpecialSectionType(ThePage, bytesToFormat, blockSize, maxalign)
    /\ dpc' = IF "BLOCK_NO_INTR" \in blockOptions THEN "next" ELSE "header"
    /\ UNCHANGED <<blockOptions, itemOptions, maxalign, blockSize, bytesToFormat,
                   exitCode, file, currentBlock, x, hdr, errs,
                   toastFiles, gin, parser, toastVars, decodeVars>>

\* what FormatHeader returned (h), with what FormatItemBlock works out once,
\* before its loop, from the globals as they are then: whether it walks the
\* line pointers, and formatAs
ItemBlockLocals(h) ==
    [walks |-> WalksItems(ThePage, bytesToFormat, blockSize, maxalign, specialType),
     formatAs |-> FormatAs(itemOptions, specialType, ThePage)] @@ h

\* rc = FormatHeader(...); on EOF_ENCOUNTERED nothing more is formatted
FormatHeaderStep ==
    /\ dpc = "header"
    /\ LET h == FormatHeader(ThePage, bytesToFormat, blockSize, maxalign, blockOptions)
       IN /\ hdr' = ItemBlockLocals(h)
          /\ Fail(h.fails)
          /\ dpc' = IF h.rc = EOF_ENCOUNTERED THEN "next" ELSE "items"
    /\ x' = 1
    /\ UNCHANGED <<blockOptions, itemOptions, maxalign, blockSize, bytesToFormat,
                   specialType, pageOffset, file, currentBlock,
                   toastFiles, gin, parser, toastVars, decodeVars>>

\* FormatItemBlock returns without walking the line pointers: a meta page,
\* a GIN page, an empty block or a corrupt item index
FormatItemBlockSkip ==
    /\ dpc = "items"
    /\ ~hdr.walks
    /\ Fail(IF /\ ~IsBtreeMetaPage(ThePage, bytesToFormat, blockSize, maxalign)
               /\ ~IsSpGistMetaPage(ThePage, bytesToFormat, blockSize, maxalign)
               /\ ~IsGinMetaPage(ThePage, bytesToFormat, blockSize, maxalign)
               /\ specialType # "INDEX_GIN"
               /\ PageGetMaxOffsetNumber(ThePage) > blockSize
            THEN {"ItemIndexCorrupt"} ELSE {})
    /\ dpc' = "special"
    /\ UNCHANGED <<blockOptions, itemOptions, maxalign, blockSize, bytesToFormat,
                   specialType, pageOffset, file, currentBlock, x, hdr,
                   toastFiles, gin, parser, toastVars, decodeVars>>

\* FormatItemBlock continues after FormatDecode ended in state st for an
\* item for which FormatItem recorded the failures f
ItemDecoded(st, f) ==
    /\ errs' = errs \cup f
                    \cup (IF \E i \in 1..Len(st.out) : st.out[i].kind = "Error"
                          THEN {"DecodeError"} ELSE {})
    /\ exitCode' = IF f # {} \/ (Scanned(st.scan) /\ st.scan.fails # {})
                   THEN 1 ELSE exitCode
    /\ bytesToFormat' = IF Scanned(st.scan) THEN st.scan.btf ELSE bytesToFormat
    /\ pageOffset' = IF Scanned(st.scan) THEN st.scan.poff ELSE pageOffset
    /\ specialType' = IF Scanned(st.scan) THEN st.scan.stype ELSE specialType
    /\ dpc' = IF st.pc = "exited" THEN "exited" ELSE "items"
    /\ copyString' = st.cs
    /\ out' = out \o st.out
    /\ log' = st.log

\* one pass of FormatItemBlock's loop, for line pointer x
FormatItemBlockItem ==
    /\ dpc = "items"
    /\ hdr.walks
    /\ x <= PageGetMaxOffsetNumber(ThePage)
    /\ LET item == PageGetItemId(ThePage, x)
       IN IF ItemExtendsBeyond(item, bytesToFormat, blockSize)
          THEN /\ Fail({"ItemExtends"})
               /\ dpc' = "items"
               /\ UNCHANGED <<copyString, out, log, bytesToFormat, specialType,
                              pageOffset>>
          ELSE LET f == IF "ITEM_DETAIL" \in itemOptions
                        THEN FormatItem(item, hdr.formatAs, maxalign)
                        ELSE {}
               IN IF "BLOCK_IGNORE_OLD" \in blockOptions /\ item.xmax # 0
                  THEN /\ Fail(f)
                       /\ dpc' = "items"
                       /\ UNCHANGED <<copyString, out, log, bytesToFormat,
                                      specialType, pageOffset>>
                  ELSE IF "BLOCK_DECODE" \in blockOptions /\ item.flags = LP_NORMAL
                  THEN \E heap \in Heaps :
                         ItemDecoded(FormatDecode(callbacks, item, HeapEnv(heap)), f)
                  ELSE /\ Fail(f)
                       /\ dpc' = "items"
                       /\ UNCHANGED <<copyString, out, log, bytesToFormat,
                                      specialType, pageOffset>>
    /\ x' = x + 1
    /\ UNCHANGED <<blockOptions, itemOptions, maxalign, blockSize,
                   file, currentBlock, hdr,
                   toastFiles, gin, parser, toastVars, callbacks, tup, pc, curr_attr, size, dpos>>

\* the loop of FormatItemBlock is over
FormatItemBlockLeave ==
    /\ dpc = "items"
    /\ hdr.walks
    /\ x > PageGetMaxOffsetNumber(ThePage)
    /\ dpc' = "special"
    /\ UNCHANGED <<globalVars, file, currentBlock, x, hdr, errs,
                   toastFiles, gin, parser, toastVars, decodeVars>>

\* if (specialType != SPEC_SECT_NONE) FormatSpecial(buffer)
FormatSpecialStep ==
    /\ dpc = "special"
    /\ Fail(IF specialType # "NONE" THEN FormatSpecial(specialType, blockOptions) ELSE {})
    /\ dpc' = "next"
    /\ UNCHANGED <<blockOptions, itemOptions, maxalign, blockSize, bytesToFormat,
                   specialType, pageOffset, file, currentBlock, x, hdr,
                   toastFiles, gin, parser, toastVars, decodeVars>>

\* back in DumpFileContents: currentBlock++
NextBlock ==
    /\ dpc = "next"
    /\ currentBlock' = currentBlock + 1
    /\ dpc' = "read"
    /\ UNCHANGED <<globalVars, file, x, hdr, errs, toastFiles, gin, parser, toastVars, decodeVars>>

\* main: exitCode = DumpFileContents(...), whose result is 0 once the
\* block buffer was allocated; then exit(exitCode)
MainExit ==
    /\ dpc = "return"
    /\ exitCode' = 0
    /\ dpc' = "exit"
    /\ UNCHANGED <<blockOptions, itemOptions, maxalign, blockSize, bytesToFormat,
                   specialType, pageOffset, file, currentBlock, x, hdr, errs,
                   toastFiles, gin, parser, toastVars, decodeVars>>

NextDump ==
    \/ ReadBlock \/ FormatBlockEnter \/ FormatHeaderStep
    \/ FormatItemBlockSkip \/ FormatItemBlockItem \/ FormatItemBlockLeave
    \/ FormatSpecialStep \/ NextBlock \/ MainExit

(***************************************************************************)
(* SpecPage: the dump of a file of one block, over a range of headers.      *)
(***************************************************************************)
PageLowers   == {16, 20, 24, 26, 28, 32, 8200}
PageUppers   == {20, 28, 8000, 8192, 8200}
PageSpecials == {0, 8176, 8184, 8188, 8192, 8200}
PageTypes    == {0, HASHO_PAGE_ID, GIST_PAGE_ID, SPGIST_PAGE_ID, 65535}
PageReads    == {8192, 20, 30}

InitPage ==
    /\ gin = GinIdle /\ parser = ParserIdle
    /\ ToastIdle /\ DecodeIdle
    /\ toastFiles = << >>
    /\ blockOptions = {} /\ itemOptions = {}
    /\ maxalign \in {4, 8}
    /\ blockSize = 8192 /\ bytesToFormat = 0
    /\ specialType = "NONE" /\ pageOffset = 0 /\ exitCode = 0
    /\ \E lo \in PageLowers, up \in PageUppers, sp \in PageSpecials,
          ver \in {PG_PAGE_LAYOUT_VERSION, 3}, val \in {SEQUENCE_MAGIC, 0},
          pt \in PageTypes, nb \in PageReads :
         file = << [nbytes |-> nb, lower |-> lo, upper |-> up, special |-> sp,
                    version |-> ver, psize |-> 8192, specval |-> val, ptype |-> pt,
                    btflags |-> 0, cksum_ok |-> TRUE, items |-> << >>] >>
    /\ dpc = "read" /\ currentBlock = 0 /\ x = 0 /\ hdr = "none" /\ errs = {}

SpecPage == InitPage /\ [][NextDump]_vars

\* specialType and hdr describe the block at currentBlock
Classified == dpc \in {"header", "items", "special", "next"}
HeaderRead == dpc \in {"items", "special", "next"}

\* the header of the current block was accepted by FormatHeader
HeaderAccepted ==
    HeaderRead /\ hdr.full /\ "InvalidHeader" \notin hdr.fails

\* C6: for a page whose header FormatHeader accepts,
\* 24 <= lower <= upper <= special <= pageSize, and the number of line
\* pointers the parser walks, times 4, plus 24, is lower.
C6_HeaderBounds ==
    HeaderAccepted =>
        /\ 24 <= ThePage.lower
        /\ ThePage.lower <= ThePage.upper
        /\ ThePage.upper <= ThePage.special
        /\ ThePage.special <= blockSize
        /\ hdr.maxOffset * 4 + 24 = ThePage.lower
        /\ (/\ dpc = "special"
            /\ WalksItems(ThePage, bytesToFormat, blockSize, maxalign, specialType))
           => (x - 1) * 4 + 24 = ThePage.lower

\* an accepted header with one line pointer, which the parser has walked
C6_Witness ==
    /\ HeaderAccepted /\ dpc = "special"
    /\ ThePage.lower = 28 /\ hdr.maxOffset = 1 /\ x = 2

\* C6, what the code does ensure for an accepted header:
\* 20 <= lower <= upper <= special <= pageSize, and the parser walks
\* (lower - 24) / 4 line pointers, rounded down, none when lower < 24.
C6_HeaderBoundsFrom20 ==
    HeaderAccepted =>
        /\ 20 <= ThePage.lower
        /\ ThePage.lower <= ThePage.upper
        /\ ThePage.upper <= ThePage.special
        /\ ThePage.special <= blockSize
        /\ hdr.maxOffset = (IF ThePage.lower < 24 THEN 0
                            ELSE (ThePage.lower - 24) \div 4)
        /\ (/\ dpc = "special"
            /\ WalksItems(ThePage, bytesToFormat, blockSize, maxalign, specialType))
           => x - 1 = hdr.maxOffset

\* the spec's ordered decision table for the special section, with
\* MAXALIGN(4) = maxalign, MAXALIGN(8) = 8, MAXALIGN(16) = 16
SpecialTable(page) ==
    LET sp_size == blockSize - page.special
        value   == page.specval
        last2   == page.ptype
    IN IF sp_size = 0 THEN "NONE"
       ELSE IF sp_size = maxalign
       THEN (IF value = 5911 THEN "SEQUENCE"
             ELSE IF sp_size = 8 /\ last2 = 65410 THEN "INDEX_SPGIST"
             ELSE IF sp_size = 8 THEN "INDEX_GIN"
             ELSE "ERROR_UNKNOWN")
       ELSE IF sp_size = 8 /\ last2 = 65410 THEN "INDEX_SPGIST"
       ELSE IF sp_size = 8 THEN "INDEX_GIN"
       ELSE IF sp_size > 2 /\ last2 <= 65407 /\ sp_size = 16 THEN "INDEX_BTREE"
       ELSE IF last2 = 65408 /\ sp_size = 16 THEN "INDEX_HASH"
       ELSE IF last2 = 65409 /\ sp_size = 16 THEN "INDEX_GIST"
       ELSE "ERROR_UNKNOWN"

\* C7: for a block read in full with 0 < special <= pageSize,
\* GetSpecialSectionType returns the type the decision table gives.
C7_SpecialSectionTable ==
    (/\ Classified
     /\ bytesToFormat = blockSize
     /\ 0 < ThePage.special /\ ThePage.special <= blockSize)
    => /\ specialType \in SpecTypes
       /\ specialType = SpecialTable(ThePage)

\* an SP-GiST page where the GIN size matches as well, MAXALIGN 8
C7_Witness ==
    /\ Classified /\ bytesToFormat = blockSize /\ maxalign = 8
    /\ blockSize - ThePage.special = 8 /\ ThePage.ptype = SPGIST_PAGE_ID
    /\ ThePage.specval # SEQUENCE_MAGIC
    /\ specialType = "INDEX_SPGIST"

\* C8 as amended: on a block read in full, special == pageSize is
\* classified NONE, no special section is formatted and none is reported
\* invalid; special == 0 is classified ERROR_BOUNDARY and, once the block is
\* formatted, reported as an invalid special section with exitCode 1.
C8_NoSpecialArea ==
    (Classified /\ bytesToFormat = blockSize)
    => /\ ThePage.special = blockSize =>
            /\ specialType = "NONE"
            /\ "InvalidSpecial" \notin errs
       /\ ThePage.special = 0 =>
            /\ specialType = "ERROR_BOUNDARY"
            /\ (dpc = "next" /\ hdr.rc # EOF_ENCOUNTERED)
               => ("InvalidSpecial" \in errs /\ exitCode = 1)

\* a block with special == pageSize formatted to its end
C8_Witness ==
    /\ dpc = "next" /\ bytesToFormat = blockSize /\ ThePage.special = blockSize
    /\ hdr.rc # EOF_ENCOUNTERED /\ specialType = "NONE" /\ errs = {}

\* C8 as stated: special == pageSize and special == 0 are both classified
\* NONE and no error is raised for the special section.
C8_ZeroSpecialIsNone ==
    (/\ Classified /\ bytesToFormat = blockSize
     /\ ThePage.special \in {0, blockSize})
    => /\ specialType = "NONE"
       /\ "InvalidSpecial" \notin errs


(***************************************************************************)
(* SpecToast: ReadStringFromToast fetches one external value; the nested    *)
(* DumpFileContents(isToast = true) scans the sibling file one step at a    *)
(* time.  tpc is                                                            *)
(*   "open"     extract_data has met the on-disk pointer held in tup        *)
(*   "read"     the nested DumpFileContents is about to fread() a block     *)
(*   "block"    FormatBlock is entered                                      *)
(*   "items"    FormatItemBlock is at line pointer toastX                   *)
(*   "special"  FormatItemBlock is over                                     *)
(*   "next"     FormatBlock has returned                                    *)
(*   "done"     the nested DumpFileContents has returned                    *)
(*   "closed"   ReadStringFromToast has returned                            *)
(***************************************************************************)
ChunkPayloads == {<<97>>, <<98>>, <<99, 100>>}

Perms(n) == {f \in [1..n -> 1..n] : \A i, j \in 1..n : f[i] = f[j] => i = j}

\* how n items in arrival order spread over the blocks of a file
Spreads(n) ==
    {f \in [1..n -> 1..MaxBlocks] : \A i, j \in 1..n : i <= j => f[i] <= f[j]}

\* the items of block b, in arrival order: position i holds chunk order[i] - 1
RECURSIVE BlockItems(_, _, _, _, _, _)
BlockItems(payloads, order, spread, n, b, i) ==
    IF i > n THEN << >>
    ELSE (IF spread[i] = b
          THEN <<ChunkItem(8000 - 40 * i, ToastTarget.valueid, order[i] - 1,
                           payloads[order[i]])>>
          ELSE << >>)
         \o BlockItems(payloads, order, spread, n, b, i + 1)

\* a chunk of another value, at the head of the file
ForeignChunk == ChunkItem(8100, ToastTarget.valueid + 1, 0, <<122>>)

ToastRelation(payloads, order, spread, n, foreign) ==
    [b \in 1..MaxBlocks |->
        HeapPage(8192, (IF foreign /\ b = 1 THEN <<ForeignChunk>> ELSE << >>)
                       \o BlockItems(payloads, order, spread, n, b, 1))]

RECURSIVE TotalLen(_)
TotalLen(ss) == IF ss = << >> THEN 0 ELSE Len(Head(ss)) + TotalLen(Tail(ss))

InitToast ==
    /\ gin = GinIdle /\ parser = ParserIdle
    /\ DriverIdle
    /\ maxalign = 8 /\ blockSize = 8192 /\ bytesToFormat = 8192
    /\ specialType = "NONE" /\ pageOffset = 0 /\ exitCode = 0
    /\ blockOptions = {"BLOCK_DECODE", "BLOCK_DECODE_TOAST"} /\ itemOptions = {}
    /\ \E n \in 1..MaxChunks, foreign \in BOOLEAN :
         \E payloads \in [1..n -> ChunkPayloads], order \in Perms(n),
            spread \in Spreads(n) :
           /\ toastFiles = (ToastTarget.relid :>
                              ToastRelation(payloads, order, spread, n, foreign))
           /\ tup = HeapItem(8000, 1, FALSE, {},
                             ExtOnDisk(TotalLen(payloads) + VARHDRSZ,
                                       TotalLen(payloads), 0), <<0, 0>>)
    /\ callbacks = <<"text">> /\ pc = "loop" /\ curr_attr = 0 /\ size = 18
    /\ dpos = 0 /\ copyString = << >> /\ out = << >> /\ log = << >>
    /\ tpc = "open" /\ toastIn = << >> /\ toastBlock = 0 /\ toastX = 0
    /\ toastValue = << >> /\ toastRead = 0 /\ toastOvf = FALSE

\* VARATT_EXTERNAL_GET_POINTER(toast_ptr, buffer)
toast_ptr == ToastPointer(tup.data, 1)

\* the block the nested scan is at
ToastPage == toastIn[toastBlock + 1]

\* toastValue, toastDataRead as the scan state of the operators
ScanState ==
    [value |-> toastValue, read |-> toastRead, ovf |-> toastOvf, fails |-> {},
     brk |-> FALSE]

\* ReadStringFromToast opens the sibling file and allocates toast_data
ToastOpen ==
    /\ tpc = "open"
    /\ tpc' = IF ToastFileOpens(toastFiles, toast_ptr.va_toastrelid)
              THEN "read" ELSE "closed"
    /\ toastIn' = IF ToastFileOpens(toastFiles, toast_ptr.va_toastrelid)
                  THEN toastFiles[toast_ptr.va_toastrelid] ELSE << >>
    /\ toastValue' = ToastStart(toast_ptr.va_rawsize).value
    /\ toastRead' = 0 /\ toastBlock' = 0
    /\ UNCHANGED <<globalVars, toastFiles, gin, parser, driverVars, toastX, toastOvf, decodeVars>>

\* bytesToFormat = fread(block, 1, blockSize, fp) in the nested scan
ToastReadBlock ==
    /\ tpc = "read"
    /\ IF toastBlock < Len(toastIn)
       THEN /\ bytesToFormat' = ToastPage.nbytes
            /\ tpc' = "block"
       ELSE /\ bytesToFormat' = 0
            /\ tpc' = "done"
    /\ UNCHANGED <<blockOptions, itemOptions, maxalign, blockSize, specialType,
                   pageOffset, exitCode, toastFiles, gin, parser, driverVars, toastIn, toastBlock,
                   toastX, toastValue, toastRead, toastOvf, decodeVars>>

\* FormatBlock from the return of FormatHeader (h) on, up to the item loop;
\* stype is the special section type FormatBlock has just set
ToastBlockEntered(h, stype) ==
    /\ specialType' = stype
    /\ Fail(h.fails
            \cup (IF /\ h.rc # EOF_ENCOUNTERED
                     /\ ~WalksItems(ToastPage, bytesToFormat, blockSize, maxalign, stype)
                     /\ PageGetMaxOffsetNumber(ToastPage) > blockSize
                     /\ stype # "INDEX_GIN"
                  THEN {"ItemIndexCorrupt"} ELSE {}))
    /\ tpc' = IF h.rc = EOF_ENCOUNTERED THEN "next"
              ELSE IF WalksItems(ToastPage, bytesToFormat, blockSize, maxalign, stype)
              THEN "items" ELSE "special"

\* FormatBlock in the nested scan: the special section type, FormatHeader
ToastFormatBlock ==
    /\ tpc = "block"
    /\ pageOffset' = blockSize * toastBlock
    /\ ToastBlockEntered(FormatHeader(ToastPage, bytesToFormat, blockSize, maxalign,
                                      blockOptions),
                         GetSpecialSectionType(ToastPage, bytesToFormat, blockSize,
                                               maxalign))
    /\ toastX' = 1
    /\ UNCHANGED <<blockOptions, itemOptions, maxalign, blockSize, bytesToFormat,
                   toastFiles, gin, parser, file, dpc, currentBlock, x, hdr, toastIn, toastBlock,
                   toastValue, toastRead, toastOvf, decodeVars>>

\* the scan state ts after the item at toastX becomes the variables
ToastChunkTaken(ts) ==
    /\ toastValue' = ts.value
    /\ toastRead' = ts.read
    /\ toastOvf' = ts.ovf
    /\ Fail(ts.fails)
    /\ tpc' = IF ts.brk THEN "special" ELSE "items"

\* one pass of FormatItemBlock's loop in the nested scan
ToastChunk ==
    /\ tpc = "items"
    /\ toastX <= PageGetMaxOffsetNumber(ToastPage)
    /\ ToastChunkTaken(ToastItemStep(ScanState, ToastPage, toastX,
                                     toast_ptr.va_valueid, toast_ptr.extsize,
                                     bytesToFormat, blockSize, maxalign, blockOptions,
                                     itemOptions, specialType))
    /\ toastX' = toastX + 1
    /\ UNCHANGED <<blockOptions, itemOptions, maxalign, blockSize, bytesToFormat,
                   specialType, pageOffset, toastFiles, gin, parser, file, dpc, currentBlock, x,
                   hdr, toastIn, toastBlock, decodeVars>>

\* the loop of FormatItemBlock is over
ToastItemsLeave ==
    /\ tpc = "items"
    /\ toastX > PageGetMaxOffsetNumber(ToastPage)
    /\ tpc' = "special"
    /\ UNCHANGED <<globalVars, toastFiles, gin, parser, driverVars, toastIn, toastBlock, toastX,
                   toastValue, toastRead, toastOvf, decodeVars>>

\* if (specialType != SPEC_SECT_NONE) FormatSpecial(buffer)
ToastSpecial ==
    /\ tpc = "special"
    /\ Fail(IF specialType # "NONE" THEN FormatSpecial(specialType, blockOptions) ELSE {})
    /\ tpc' = "next"
    /\ UNCHANGED <<blockOptions, itemOptions, maxalign, blockSize, bytesToFormat,
                   specialType, pageOffset, toastFiles, gin, parser, file, dpc, currentBlock, x,
                   hdr, toastIn, toastBlock, toastX, toastValue, toastRead, toastOvf,
                   decodeVars>>

\* back in the nested DumpFileContents: currentBlock++, and the loop ends
\* once toastDataRead >= toastExternalSize
ToastNextBlock ==
    /\ tpc = "next"
    /\ toastBlock' = toastBlock + 1
    /\ tpc' = IF ~ULt(toastRead, toast_ptr.extsize) THEN "done" ELSE "read"
    /\ UNCHANGED <<globalVars, toastFiles, gin, parser, driverVars, toastIn, toastX, toastValue,
                   toastRead, toastOvf, decodeVars>>

\* ReadStringFromToast hands toast_data to parse_value or to
\* DumpCompressedString and returns
ToastClose ==
    /\ tpc = "done"
    /\ copyString' = ReadToastValue(toast_ptr, ScanState, copyString, ParseEncode).cs
    /\ tpc' = "closed"
    /\ UNCHANGED <<globalVars, toastFiles, gin, parser, driverVars, toastIn, toastBlock, toastX,
                   toastValue, toastRead, toastOvf, callbacks, tup, pc, curr_attr,
                   size, dpos, out, log>>

NextToast ==
    \/ ToastOpen \/ ToastReadBlock \/ ToastFormatBlock \/ ToastChunk
    \/ ToastItemsLeave \/ ToastSpecial \/ ToastNextBlock \/ ToastClose

SpecToast == InitToast /\ [][NextToast]_vars

(***************************************************************************)
(* Properties of the TOAST scan (SpecToast).                                *)
(***************************************************************************)
\* the items of the sibling file, in arrival order
RECURSIVE FileItems(_, _)
FileItems(f, b) == IF b > Len(f) THEN << >> ELSE f[b].items \o FileItems(f, b + 1)

\* the chunk tuples of the value the pointer names, in arrival order
RECURSIVE TargetChunks(_, _)
TargetChunks(items, oid) ==
    IF items = << >> THEN << >>
    ELSE (IF LE32(Head(items).data, 1) = oid THEN <<Head(items)>> ELSE << >>)
         \o TargetChunks(Tail(items), oid)

\* chunk_seq and chunk_data of a chunk tuple
ChunkSeqOf(item) == LE32(item.data, 5)
ChunkPayloadOf(item) == Slice(item.data, 13, Len(item.data) - 12)

\* the payloads of chunks concatenated in chunk_id order, from chunk_id k on
RECURSIVE InChunkIdOrder(_, _)
InChunkIdOrder(chunks, k) ==
    IF k >= Len(chunks) THEN << >>
    ELSE ChunkPayloadOf(chunks[CHOOSE i \in 1..Len(chunks) : ChunkSeqOf(chunks[i]) = k])
         \o InChunkIdOrder(chunks, k + 1)

\* the payloads of chunks concatenated in the order of the file
RECURSIVE InArrivalOrder(_)
InArrivalOrder(chunks) ==
    IF chunks = << >> THEN << >>
    ELSE ChunkPayloadOf(Head(chunks)) \o InArrivalOrder(Tail(chunks))

\* the chunk tuples of the scanned value
ScannedChunks == TargetChunks(FileItems(toastIn, 1), toast_ptr.va_valueid)

\* the nested scan is over
ScanOver == tpc \in {"done", "closed"}

\* the first extsize bytes of the destination buffer
Reassembled == Slice(toastValue, 1, toast_ptr.extsize)

\* C1: for chunk tuples of the target value whose payloads, concatenated in
\* chunk_id order, are B with |B| = extsize, the scan leaves exactly B in the
\* destination buffer, whatever the order of the chunks in the file.
C1_ReassemblyOrderIndependent ==
    (/\ ScanOver
     /\ Len(InChunkIdOrder(ScannedChunks, 0)) = toast_ptr.extsize)
    => Reassembled = InChunkIdOrder(ScannedChunks, 0)

\* C1, what the scan does leave: the payloads in the order of arrival
C1_ReassemblyInArrivalOrder ==
    ScanOver => /\ Reassembled = InArrivalOrder(ScannedChunks)
                /\ toastRead = toast_ptr.extsize
                /\ ~toastOvf

\* chunk 1 is stored before chunk 0 and the buffer holds them that way round
C1_Witness ==
    /\ ScanOver
    /\ Len(ScannedChunks) = 2
    /\ ChunkSeqOf(ScannedChunks[1]) = 1 /\ ChunkSeqOf(ScannedChunks[2]) = 0
    /\ Reassembled = ChunkPayloadOf(ScannedChunks[1]) \o ChunkPayloadOf(ScannedChunks[2])
    /\ Reassembled # InChunkIdOrder(ScannedChunks, 0)

\* the step-by-step scan ends where ToastScan ends
ToastScanAgrees ==
    tpc = "done" =>
        LET ts == ToastScan(ToastStart(toast_ptr.va_rawsize), toastIn, 1,
                            toast_ptr.va_valueid, toast_ptr.extsize, blockSize,
                            maxalign, blockOptions, itemOptions)
        IN /\ ts.value = toastValue /\ ts.read = toastRead /\ ts.ovf = toastOvf


(***************************************************************************)
(* SpecDump: pg_filedump -D text -k -i on a file of up to MaxBlocks blocks, *)
(* each taken from a menu of pages, from the first fread() to exit().       *)
(***************************************************************************)
PageKinds ==
    {"good", "empty", "badversion", "badsum", "partial", "beyond", "sizediff",
     "badspecial", "nodata", "neglen"}

\* a heap tuple holding the short varlena "a"
TextItem == HeapItem(8000, 1, FALSE, {}, <<5, 97>>, <<0, 0>>)

PageOf(kind) ==
    CASE kind = "good"       -> HeapPage(8192, <<TextItem>>)
      [] kind = "empty"      -> HeapPage(8192, << >>)
      [] kind = "badversion" -> [HeapPage(8192, <<TextItem>>) EXCEPT !.version = 3]
      [] kind = "badsum"     -> [HeapPage(8192, <<TextItem>>) EXCEPT !.cksum_ok = FALSE]
      [] kind = "partial"    -> [HeapPage(8192, <<TextItem>>) EXCEPT !.nbytes = 20]
      [] kind = "beyond"     ->
           HeapPage(8192, <<[TextItem EXCEPT !.off = 8180]>>)
      [] kind = "sizediff"   ->    \* a B-tree page whose index tuple states size 0
           [HeapPage(8192, <<TextItem>>) EXCEPT !.special = 8176]
      [] kind = "badspecial" -> [HeapPage(8192, <<TextItem>>) EXCEPT !.special = 8190]
      [] kind = "nodata"     ->    \* a tuple with an empty data area
           HeapPage(8192, <<HeapItem(8000, 1, FALSE, {}, << >>, <<0, 0>>)>>)
      [] kind = "neglen"     ->    \* a 4-byte varlena header stating length 2
           HeapPage(8192, <<HeapItem(8000, 1, FALSE, {}, <<8, 0, 0, 0>>, <<0, 0>>)>>)

RECURSIVE PagesOf(_)
PagesOf(kinds) ==
    IF kinds = << >> THEN << >> ELSE <<PageOf(Head(kinds))>> \o PagesOf(Tail(kinds))

InitDump ==
    /\ gin = GinIdle /\ parser = ParserIdle
    /\ ToastIdle
    /\ toastFiles = << >>
    /\ blockOptions = {"BLOCK_DECODE", "BLOCK_CHECKSUMS"}
    /\ itemOptions = {"ITEM_DETAIL"}
    /\ maxalign = 8 /\ blockSize = 8192 /\ bytesToFormat = 0
    /\ specialType = "NONE" /\ pageOffset = 0 /\ exitCode = 0
    /\ \E kinds \in SeqsUpTo(PageKinds, MaxBlocks) : file = PagesOf(kinds)
    /\ callbacks = <<"text">> /\ tup = "none" /\ pc = "idle" /\ curr_attr = 0
    /\ size = 0 /\ dpos = 0 /\ copyString = << >> /\ out = << >> /\ log = << >>
    /\ dpc = "read" /\ currentBlock = 0 /\ x = 0 /\ hdr = "none" /\ errs = {}

SpecDump == InitDump /\ [][NextDump]_vars

(***************************************************************************)
(* Properties of the exit code (SpecDump).                                  *)
(***************************************************************************)
\* the failures that set exitCode = 1 where they are found
ValidationFailures == errs \ {"DecodeError"}

\* C2: the exit code is non-zero whenever a block-level or item-level
\* validation failed during the dump (a tuple decode error included) and is
\* 0 only when none occurred: a failure recorded in block k still shows in
\* the exit code once DumpFileContents has returned to main.
C2_ExitCodeReflectsFailures ==
    dpc = "exit" => ((exitCode # 0) <=> (errs # {}))

\* C2, what the code does: while the blocks are formatted every failure
\* other than a tuple decode error has set exitCode to 1, and the return
\* value of DumpFileContents, 0, then replaces it.
C2_ExitCodeOverwritten ==
    /\ dpc \in {"read", "format", "header", "items", "special", "next", "return"}
          => ((exitCode # 0) <=> (ValidationFailures # {}))
    /\ dpc = "exit" => exitCode = 0

\* a file whose first block has an invalid header, followed by a good
\* block: after the dump the exit code is 0
C2_Witness ==
    /\ dpc = "exit" /\ Len(file) = 2 /\ currentBlock = 2
    /\ "InvalidHeader" \in errs /\ exitCode = 0


(***************************************************************************)
(* SpecVarlena: FormatDecode on a tuple whose first attribute is one        *)
(* varlena taken from a menu of header forms, well-formed and not.          *)
(***************************************************************************)
VarlenaKinds ==
    {"short", "short0", "shortlong", "in4", "in4min", "in4long", "in4neg", "in4cut",
     "pglz", "lz4", "pglzshort", "cunknown", "clong", "ccut", "ext", "extcut"}

\* the bytes of each kind; the logical value, where there is one, is "xyz"
VarlenaBytes(kind) ==
    CASE kind = "short"     -> <<9, 120, 121, 122>>            \* 1-byte header, length 4
      [] kind = "short0"    -> <<3>>                           \* length 1: no payload
      [] kind = "shortlong" -> <<11, 120>>                     \* states 5 bytes, has 2
      [] kind = "in4"       -> <<28, 0, 0, 0, 120, 121, 122>>  \* 4-byte header, L = 7
      [] kind = "in4min"    -> <<16, 0, 0, 0>>                 \* L = 4: no payload
      [] kind = "in4long"   -> <<40, 0, 0, 0, 120>>            \* L = 10, has 5
      [] kind = "in4neg"    -> <<8, 0, 0, 0>>                  \* L = 2 < 4
      [] kind = "in4cut"    -> <<4, 0>>                        \* the header is cut short
      [] kind = "pglz"      ->     \* L = 12, raw size 3, pglz, three literals
           <<50, 0, 0, 0, 3, 0, 0, 0, 0, 120, 121, 122>>
      [] kind = "lz4"       ->     \* L = 12, raw size 3, lz4, three literals
           <<50, 0, 0, 0, 3, 0, 0, 64, 48, 120, 121, 122>>
      [] kind = "pglzshort" ->     \* raw size 5 stated, the stream yields 3
           <<50, 0, 0, 0, 5, 0, 0, 0, 0, 120, 121, 122>>
      [] kind = "cunknown"  ->     \* compression method 2
           <<50, 0, 0, 0, 3, 0, 0, 128, 0, 120, 121, 122>>
      [] kind = "clong"     ->     \* L = 20, has 12
           <<82, 0, 0, 0, 3, 0, 0, 0, 0, 120, 121, 122>>
      [] kind = "ccut"      -> <<50, 0, 0, 0, 3, 0>>           \* fewer than 8 bytes
      [] kind = "ext"       -> ExtOnDisk(7, 3, 0)
      [] kind = "extcut"    -> <<1, VARTAG_ONDISK, 7>>

InitVarlena ==
    /\ gin = GinIdle /\ parser = ParserIdle
    /\ DriverIdle /\ ToastIdle
    /\ maxalign = 8 /\ blockSize = 8192 /\ bytesToFormat = 8192
    /\ specialType = "NONE" /\ pageOffset = 0 /\ exitCode = 0
    /\ itemOptions = {}
    /\ \E kind \in VarlenaKinds, pad \in {<< >>, <<0>>}, rest \in {<< >>, <<5, 97>>},
          toast \in BOOLEAN, bey \in {<<0, 0>>, <<7, 0>>}, nofile \in BOOLEAN :
         /\ toast => bey = <<0, 0>>
         /\ nofile => (toast /\ kind = "ext")
         /\ toastFiles = (IF nofile THEN << >> ELSE ToastTarget.relid :> OneChunkFile)
         /\ blockOptions = {"BLOCK_DECODE"}
                           \cup (IF toast THEN {"BLOCK_DECODE_TOAST"} ELSE {})
         /\ callbacks = (IF rest = << >> THEN <<"text">> ELSE <<"text", "text">>)
         /\ tup = HeapItem(8000, Len(callbacks), FALSE, {},
                           pad \o VarlenaBytes(kind) \o rest, bey)
    /\ pc = "start" /\ curr_attr = 0 /\ size = 0 /\ dpos = 0
    /\ copyString = << >> /\ out = << >> /\ log = << >>

SpecVarlena == InitVarlena /\ [][NextDecode]_vars

(***************************************************************************)
(* Properties of the varlena resolver (SpecVarlena).                        *)
(***************************************************************************)
\* a call of the varlena resolver that got past the padding
PastPadding(e) == e.kind = "call" /\ e.type = "text" /\ e.form # "padding"

\* the formatter was called once, with the n bytes from mem[i] on
FormatterGot(e, mem, i, n) ==
    /\ Len(e.fmt) = 1
    /\ e.fmt[1].len = n
    /\ e.fmt[1].bytes = [k \in 1..n |-> At(mem, i + k - 1)]
    /\ ~e.exit

\* the call failed with code r and the formatter was not called
FailedWith(e, r) == e.ret = r /\ e.fmt = << >> /\ e.after = e.before /\ ~e.exit

\* what C11 states of a call whose header byte b is mem[q], with avail bytes
\* left from the header byte on
HeaderFormAsStated(e, mem, q, avail) ==
    LET b == At(mem, q)
        L == (LE32(mem, q) \div 4) % (2 ^ 30)
    IN IF b = 1 THEN e.form = "external"
       ELSE IF b % 2 = 1
       THEN /\ e.form = "short1b"
            /\ IF b \div 2 > avail THEN FailedWith(e, -1)
               ELSE FormatterGot(e, mem, q + 1, (b \div 2) - 1)
       ELSE IF b % 4 = 0 /\ avail >= 4
       THEN /\ e.form = "inline4b"
            /\ IF L > avail THEN FailedWith(e, -1)
               ELSE FormatterGot(e, mem, q + 4, IF L >= 4 THEN L - 4 ELSE 0)
       ELSE IF b % 4 = 2 /\ avail >= 8
       THEN /\ e.form = "compressed"
            /\ L > avail => FailedWith(e, -1)
       ELSE FailedWith(e, -9)

\* C11: after the padding the header byte selects exactly one varlena form
\* and the formatter receives that form's payload: 0x01 is an external
\* pointer; any other odd byte is short inline, length b >> 1, payload
\* [1, length); (b & 3) = 0 is 4-byte uncompressed, length L from the header,
\* payload [4, L); (b & 3) = 2 is 4-byte compressed; an inline form whose
\* stated length exceeds the bytes available fails without a formatter call,
\* and a byte matching no usable form fails with the bad-header error.
C11_HeaderSelectsFormAndPayload ==
    \A i \in 1..Len(log) :
        PastPadding(log[i]) =>
            HeaderFormAsStated(log[i], TupleMem, log[i].at + log[i].padding,
                               log[i].n - log[i].padding)

\* the same for every call but that of a 4-byte uncompressed header whose
\* stated length is below 4
C11_HeaderSelectsFormFromLength4 ==
    \A i \in 1..Len(log) :
        (/\ PastPadding(log[i])
         /\ ~(/\ log[i].form = "inline4b"
              /\ PhysicalSize(TupleMem, log[i].at + log[i].padding) < 4))
        => HeaderFormAsStated(log[i], TupleMem, log[i].at + log[i].padding,
                              log[i].n - log[i].padding)

\* a 4-byte uncompressed varlena after a padding byte reached the formatter
C11_Witness ==
    \E i \in 1..Len(log) :
        /\ PastPadding(log[i]) /\ log[i].padding = 1 /\ log[i].form = "inline4b"
        /\ log[i].ret = 0 /\ log[i].fmt # << >>
        /\ log[i].fmt[1].bytes = <<120, 121, 122>>


\* the call met an inline-compressed varlena that fits the bytes available
\* and whose decompression fails: the method is unknown or the decompressor
\* does not report the raw size stated
DecompressionFails(e, mem) ==
    LET q == e.at + e.padding
        L == VARSIZE_4B(mem, q)
        w == LE32(mem, q + 4)
        d == Decompress((w \div (2 ^ 30)) % 4, Slice(mem, q + 8, L - 8), w % (2 ^ 30))
    IN /\ PastPadding(e) /\ e.form = "compressed"
       /\ L <= e.n - e.padding
       /\ (d.ret # w % (2 ^ 30) \/ d.ret < 0)

\* C12 as amended: when the decompression of an inline-compressed varlena
\* fails, the formatter is not called on the scratch buffer, the token
\* (inline compressed, corrupted) is appended to the line in place of the
\* value, and the call returns success having consumed padding + L bytes;
\* when it is the tuple's only attribute the COPY line is printed with the
\* token.
C12_CorruptedInlineYieldsToken ==
    \A i \in 1..Len(log) :
        DecompressionFails(log[i], TupleMem) =>
            /\ log[i].fmt = << >>
            /\ log[i].ret = 0 /\ ~log[i].exit
            /\ log[i].after = CopyAppend(log[i].before, STR_INLINE_CORRUPTED)
            /\ log[i].out_size
                 = log[i].padding + VARSIZE_4B(TupleMem, log[i].at + log[i].padding)
            /\ (Terminated /\ Len(callbacks) = 1)
                 => out = <<[kind |-> "COPY", text |-> STR_INLINE_CORRUPTED]>>

\* a tuple whose only attribute states compression method 2 has been decoded
C12_Witness ==
    /\ Terminated /\ Len(callbacks) = 1 /\ Len(log) = 1
    /\ DecompressionFails(log[1], TupleMem)
    /\ (LE32(TupleMem, log[1].at + log[1].padding + 4) \div (2 ^ 30)) % 4 = 2
    /\ CopyPrinted

\* C12 as stated: when the decompression fails the formatter is not called,
\* the attribute decode returns an error and no COPY line is printed for
\* the tuple.
C12_DecompressionFailureIsError ==
    \A i \in 1..Len(log) :
        DecompressionFails(log[i], TupleMem) =>
            /\ log[i].fmt = << >>
            /\ log[i].ret < 0
            /\ Terminated => ~CopyPrinted


(***************************************************************************)
(* SpecForms: FormatDecode on a tuple of one varlena attribute, text or     *)
(* numeric, whose 12 logical bytes are stored in one of the storage forms,  *)
(* with -t given so that external values are fetched.  The logical bytes    *)
(* are a 2-byte numeric header and 5 equal digits, which pglz compresses to *)
(* 3 literals and one tag.                                                  *)
(***************************************************************************)
StorageForms == {"short", "inline", "inlinez", "inlinelz4", "ext", "extz"}

\* short headers: weight 4, dscale 0, positive; weight 0, dscale 4, negative
LogicalValues == {[hdr |-> <<4, 128>>, fill |-> 1], [hdr |-> <<0, 162>>, fill |-> 3]}

LogicalBytes(v) == v.hdr \o [k \in 1..10 |-> v.fill]

\* the pglz stream of LogicalBytes(v): control byte 8, three literals, a tag
\* of length 9 at offset 1
PglzOf(v) == <<8>> \o v.hdr \o <<v.fill, 6, 1>>

\* the compressed datum: raw size and method, then the stream
CompressedOf(v) == Bytes32(12) \o PglzOf(v)

\* the attribute as it lies in the tuple
FormBytes(form, v) ==
    CASE form = "short"     -> <<27>> \o LogicalBytes(v)
      [] form = "inline"    -> Bytes32(4 * 16) \o LogicalBytes(v)
      [] form = "inlinez"   -> Bytes32(4 * 14 + 2) \o CompressedOf(v)
      [] form = "inlinelz4" -> Bytes32(4 * 21 + 2) \o <<12, 0, 0, 64, 192>>
                                  \o LogicalBytes(v)
      [] form = "ext"       -> ExtOnDisk(16, 12, 0)
      [] form = "extz"      -> ExtOnDisk(16, 10, TOAST_PGLZ_COMPRESSION_ID)

\* the sibling TOAST relation: one chunk, the external datum
FormFile(form, v) ==
    <<HeapPage(8192, <<ChunkItem(8000, ToastTarget.valueid, 0,
                                 IF form = "extz" THEN CompressedOf(v)
                                 ELSE LogicalBytes(v))>>)>>

InitForms ==
    /\ gin = GinIdle /\ parser = ParserIdle
    /\ DriverIdle /\ ToastIdle
    /\ maxalign = 8 /\ blockSize = 8192 /\ bytesToFormat = 8192
    /\ specialType = "NONE" /\ pageOffset = 0 /\ exitCode = 0
    /\ itemOptions = {}
    /\ blockOptions = {"BLOCK_DECODE", "BLOCK_DECODE_TOAST"}
    /\ \E form \in StorageForms, v \in LogicalValues, pad \in {<< >>, <<0>>},
          type \in {"text", "numeric"} :
         /\ toastFiles = (ToastTarget.relid :> FormFile(form, v))
         /\ callbacks = <<type>>
         /\ tup = HeapItem(8000, 1, FALSE, {}, pad \o FormBytes(form, v), <<0, 0>>)
    /\ pc = "start" /\ curr_attr = 0 /\ size = 0 /\ dpos = 0
    /\ copyString = << >> /\ out = << >> /\ log = << >>

SpecForms == InitForms /\ [][NextDecode]_vars

(***************************************************************************)
(* Properties of the storage forms (SpecForms).                             *)
(***************************************************************************)
\* the tuple decoded holds the value v in the given form
StoredAs(form, v) ==
    /\ \E pad \in {<< >>, <<0>>} : tup.data = pad \o FormBytes(form, v)
    /\ toastFiles[ToastTarget.relid] = FormFile(form, v)

\* the type's own formatter
OwnFormatter(type) == IF type = "numeric" THEN "CopyAppendNumeric" ELSE "CopyAppendEncode"

\* the text the type's own formatter makes of the logical bytes
OwnText(type, v) ==
    IF type = "numeric"
    THEN CopyAppendNumeric(<< >>, LogicalBytes(v), 12, <<0, 0, 0, 0>>).cs
    ELSE CopyAppendEncode(<< >>, LogicalBytes(v), 12).cs

\* the decode of the tuple is over, the one attribute was passed to the
\* type's own formatter and the COPY line is the text that formatter makes
FormattedByOwn(v) ==
    /\ Len(log) = 1 /\ log[1].kind = "call"
    /\ log[1].fmt = <<[fn |-> OwnFormatter(callbacks[1]),
                       bytes |-> LogicalBytes(v), len |-> 12]>>
    /\ out = <<[kind |-> "COPY", text |-> OwnText(callbacks[1], v)]>>

\* C13: whatever the storage form (short inline, 4-byte inline, inline
\* compressed, external uncompressed, external compressed), the logical
\* bytes of a varlena attribute are passed to the formatter of the
\* attribute's type and the text emitted is the same.
C13_FormatterDependsOnTypeOnly ==
    \A form \in StorageForms, v \in LogicalValues :
        (Terminated /\ StoredAs(form, v)) => FormattedByOwn(v)

\* C13 with the external compressed numeric set aside: every other form of
\* a numeric, and every form of a string, gets the type's own formatter and
\* gives the same text.
C13_FormatterDependsOnTypeButExtNumeric ==
    \A form \in StorageForms, v \in LogicalValues :
        (Terminated /\ StoredAs(form, v)
         /\ ~(form = "extz" /\ callbacks[1] = "numeric")) => FormattedByOwn(v)

\* a numeric stored external and compressed has been decoded: the escape
\* formatter got the decompressed bytes, and the COPY line is not the
\* number
C13_Witness ==
    /\ Terminated /\ callbacks = <<"numeric">>
    /\ \E v \in LogicalValues :
         /\ StoredAs("extz", v)
         /\ Len(log) = 1
         /\ log[1].fmt = <<[fn |-> "CopyAppendEncode",
                            bytes |-> LogicalBytes(v), len |-> 12]>>
         /\ out = <<[kind |-> "COPY", text |-> OwnText("text", v)]>>
         /\ OwnText("text", v) # OwnText("numeric", v)


(***************************************************************************)
(* SpecNested: pg_filedump -D text -t on a heap file of up to MaxBlocks     *)
(* blocks whose tuples hold a pointer to the external value 42 and plain    *)
(* strings, next to a TOAST relation file taken from a menu.  Every block   *)
(* of the heap file is read in full and every item lies inside its block.   *)
(***************************************************************************)
\* a heap tuple holding an on-disk pointer to the 3-byte value 42
PointerItem(off) == HeapItem(off, 1, FALSE, {}, ExtOnDisk(7, 3, 0), <<0, 0>>)

ParentKinds == {"pointer_first", "pointer_last", "empty"}

ParentPage(kind) ==
    CASE kind = "pointer_first" ->
           HeapPage(8192, <<PointerItem(8000), [TextItem EXCEPT !.off = 7900]>>)
      [] kind = "pointer_last" ->
           HeapPage(8192, <<[TextItem EXCEPT !.off = 7900], PointerItem(8000)>>)
      [] kind = "empty" -> HeapPage(8192, << >>)

RECURSIVE ParentPages(_)
ParentPages(kinds) ==
    IF kinds = << >> THEN << >>
    ELSE <<ParentPage(Head(kinds))>> \o ParentPages(Tail(kinds))

ToastKinds == {"first", "second", "foreign", "nofile", "nopages", "partial",
               "badspecial"}

\* the sibling files by toastrelid
ToastFilesOf(kind) ==
    CASE kind = "first"      -> ToastTarget.relid :> OneChunkFile
      [] kind = "second"     -> ToastTarget.relid :> <<HeapPage(8192, << >>)>> \o OneChunkFile
      [] kind = "foreign"    -> ToastTarget.relid :> <<HeapPage(8192, <<ForeignChunk>>)>>
      [] kind = "nofile"     -> << >>
      [] kind = "nopages"    -> ToastTarget.relid :> << >>
      [] kind = "partial"    -> ToastTarget.relid :> <<[OneChunkFile[1] EXCEPT !.nbytes = 20]>>
      [] kind = "badspecial" -> ToastTarget.relid :> <<[OneChunkFile[1] EXCEPT !.special = 8190]>>

InitNested ==
    /\ gin = GinIdle /\ parser = ParserIdle
    /\ ToastIdle
    /\ blockOptions = {"BLOCK_DECODE", "BLOCK_DECODE_TOAST"}
    /\ itemOptions = {}
    /\ maxalign = 8 /\ blockSize = 8192 /\ bytesToFormat = 0
    /\ specialType = "NONE" /\ pageOffset = 0 /\ exitCode = 0
    /\ \E kinds \in SeqsUpTo(ParentKinds, MaxBlocks), tk \in ToastKinds :
         /\ file = ParentPages(kinds)
         /\ toastFiles = ToastFilesOf(tk)
    /\ callbacks = <<"text">> /\ tup = "none" /\ pc = "idle" /\ curr_attr = 0
    /\ size = 0 /\ dpos = 0 /\ copyString = << >> /\ out = << >> /\ log = << >>
    /\ dpc = "read" /\ currentBlock = 0 /\ x = 0 /\ hdr = "none" /\ errs = {}

SpecNested == InitNested /\ [][NextDump]_vars

(***************************************************************************)
(* Properties of the parent's parse state (SpecNested).                     *)
(***************************************************************************)
\* the globals of the block being formatted are those FormatBlock set for it
ParentStateKept ==
    dpc \in {"items", "special"} =>
        /\ bytesToFormat = ThePage.nbytes
        /\ pageOffset = blockSize * currentBlock
        /\ specialType = GetSpecialSectionType(ThePage, ThePage.nbytes, blockSize,
                                               maxalign)

\* C14: resolving an external TOAST value in the middle of a parent block
\* leaves the parent's bytes available in the block, special-section type
\* and page offset as they were, and the remaining items and the special
\* section of the block are bounds-checked and formatted as if no value had
\* been resolved: here no item is found to extend beyond its block and no
\* special section is found invalid.
C14_NestedScanKeepsParentState ==
    /\ ParentStateKept
    /\ "ItemExtends" \notin errs /\ "InvalidSpecial" \notin errs

\* C14 where no nested scan runs: as long as the TOAST relation file cannot
\* be opened the parent's state is kept and its items and special section
\* are formatted as they are.
C14_ParentStateKeptWithoutScan ==
    ~ToastFileOpens(toastFiles, ToastTarget.relid) => C14_NestedScanKeepsParentState

\* the nested scan ran to the end of the TOAST file in the middle of a
\* block: the parent goes on with bytesToFormat = 0 and finds its next item,
\* which lies inside the block, to extend beyond it
C14_Witness ==
    /\ dpc = "items" /\ x = 3 /\ bytesToFormat = 0 /\ ThePage.nbytes = 8192
    /\ PageGetItemId(ThePage, 1) = PointerItem(8000)
    /\ "ItemExtends" \in errs


ToastBytesFound ==
    ToastScan(ToastStartAt(7, Env), toastFiles[ToastTarget.relid], 1,
              ToastTarget.valueid, 3, blockSize, maxalign, blockOptions,
              itemOptions).read

\* the TOAST relation file opens and is exhausted before the 3 bytes of the
\* external value have been accumulated
ToastDeficit ==
    /\ ToastFileOpens(toastFiles, ToastTarget.relid)
    /\ ULt(ToastBytesFound, 3)

\* log entry i is the decode of the pointer to the external value
ExternalCall(i) ==
    /\ i \in 1..Len(log)
    /\ log[i].kind = "call" /\ log[i].form = "external"

\* C16: when the TOAST relation file is exhausted before extsize bytes of
\* matching chunks have been accumulated, the deficit is reported as an
\* error for that value (the decode of the value fails and no COPY line is
\* printed from it), and the parent dump goes on.
C16_DeficitReportedAsError ==
    ToastDeficit =>
        \A i \in 1..Len(log) :
            ExternalCall(i) => /\ log[i].ret < 0
                               /\ log[i].fmt = << >>

\* what holds instead: with a deficit the value is formatted from the
\* destination buffer as it is, the decode returns 0 and nothing is
\* recorded as an error for it
C16_DeficitFormatsBufferAsIs ==
    ToastDeficit =>
        \A i \in 1..Len(log) :
            ExternalCall(i) =>
                /\ log[i].ret = 0
                /\ Len(log[i].fmt) = 1
                /\ log[i].fmt[1].len = 3
                /\ "DecodeError" \notin errs

\* the dump is over, the TOAST file held no chunk of the value, and the
\* pointer was decoded with result 0 and printed in a COPY line
C16_Witness ==
    /\ dpc = "return" /\ ToastDeficit /\ ToastBytesFound = 0
    /\ \E i \in 1..Len(log) : ExternalCall(i) /\ log[i].ret = 0
    /\ \E k \in 1..Len(out) : out[k].kind = "COPY"


(***************************************************************************)
(* SpecFlags: the nested scan of SpecToast over a TOAST relation file that  *)
(* holds one chunk of the value behind a NORMAL line pointer and one more   *)
(* stored tuple behind a line pointer with any of the four flags, of the    *)
(* value or of another one.  The value is 2 bytes long.                     *)
(***************************************************************************)
LpFlags == {LP_UNUSED, LP_NORMAL, LP_REDIRECT, LP_DEAD}

\* a stored chunk tuple of value oid behind a line pointer with flags fl
FlaggedChunk(off, fl, oid) == [ChunkItem(off, oid, 1, <<120>>) EXCEPT !.flags = fl]

\* the chunk behind the NORMAL line pointer
PlainChunk == ChunkItem(8000, ToastTarget.valueid, 0, <<97>>)

\* the file: both tuples in one block, or one block each
FlagsRelation(first, second, split) ==
    IF split THEN <<HeapPage(8192, <<first>>), HeapPage(8192, <<second>>)>>
    ELSE <<HeapPage(8192, <<first, second>>)>>

InitFlags ==
    /\ gin = GinIdle /\ parser = ParserIdle
    /\ DriverIdle
    /\ maxalign = 8 /\ blockSize = 8192 /\ bytesToFormat = 8192
    /\ specialType = "NONE" /\ pageOffset = 0 /\ exitCode = 0
    /\ blockOptions = {"BLOCK_DECODE", "BLOCK_DECODE_TOAST"} /\ itemOptions = {}
    /\ \E fl \in LpFlags, oid \in {ToastTarget.valueid, ToastTarget.valueid + 1},
          flaggedFirst \in BOOLEAN, split \in BOOLEAN :
         toastFiles = (ToastTarget.relid :>
                         IF flaggedFirst
                         THEN FlagsRelation(FlaggedChunk(7900, fl, oid), PlainChunk, split)
                         ELSE FlagsRelation(PlainChunk, FlaggedChunk(7900, fl, oid), split))
    /\ tup = HeapItem(8000, 1, FALSE, {}, ExtOnDisk(2 + VARHDRSZ, 2, 0), <<0, 0>>)
    /\ callbacks = <<"text">> /\ pc = "loop" /\ curr_attr = 0 /\ size = 18
    /\ dpos = 0 /\ copyString = << >> /\ out = << >> /\ log = << >>
    /\ tpc = "open" /\ toastIn = << >> /\ toastBlock = 0 /\ toastX = 0
    /\ toastValue = << >> /\ toastRead = 0 /\ toastOvf = FALSE

SpecFlags == InitFlags /\ [][NextToast]_vars

(***************************************************************************)
(* Properties of the items that contribute (SpecFlags).                     *)
(***************************************************************************)
\* the item the scan is at
ToastItemAt == PageGetItemId(ToastPage, toastX)

\* this step of the item loop wrote into the destination buffer or advanced
\* the accumulated byte count
Contributes ==
    /\ tpc = "items"
    /\ (toastValue' # toastValue \/ toastRead' # toastRead)

\* C17: during the reassembly only items whose line pointer is NORMAL and
\* whose first column equals the target value id contribute bytes: every
\* other item leaves the destination buffer and the accumulated byte count
\* as they are.
C17_OnlyNormalMatchingContribute ==
    [][Contributes => /\ ToastItemAt.flags = LP_NORMAL
                      /\ LE32(ToastItemAt.data, 1) = toast_ptr.va_valueid]_vars

\* what holds: only items whose first column equals the target value id
\* contribute, whatever their line pointer's flags
C17_OnlyMatchingOidContributes ==
    [][Contributes => LE32(ToastItemAt.data, 1) = toast_ptr.va_valueid]_vars

\* the scan is over and the tuple behind a DEAD line pointer has given the
\* first byte of the value
C17_Witness ==
    /\ ScanOver /\ toastRead = 2
    /\ toastIn[1].items[1] = FlaggedChunk(7900, LP_DEAD, ToastTarget.valueid)
    /\ Reassembled = <<120, 97>>


(***************************************************************************)
(* SpecFormat: pg_filedump -i, -i -y or -i -x on a file of up to MaxBlocks  *)
(* blocks, each with one item and a special section of one of the kinds.    *)
(***************************************************************************)
FormatKinds == {"heap", "btree", "hash", "gist", "spgleaf", "spginner", "gin",
                "badspecial"}

FormatPage(kind) ==
    CASE kind = "heap"       -> HeapPage(8192, <<TextItem>>)
      [] kind = "btree"      -> [HeapPage(8192, <<TextItem>>) EXCEPT !.special = 8176]
      [] kind = "hash"       -> [HeapPage(8192, <<TextItem>>) EXCEPT
                                    !.special = 8176, !.ptype = HASHO_PAGE_ID]
      [] kind = "gist"       -> [HeapPage(8192, <<TextItem>>) EXCEPT
                                    !.special = 8176, !.ptype = GIST_PAGE_ID]
      [] kind = "spgleaf"    -> [HeapPage(8192, <<TextItem>>) EXCEPT
                                    !.special = 8184, !.ptype = SPGIST_PAGE_ID,
                                    !.specval = 4]
      [] kind = "spginner"   -> [HeapPage(8192, <<TextItem>>) EXCEPT
                                    !.special = 8184, !.ptype = SPGIST_PAGE_ID]
      [] kind = "gin"        -> [HeapPage(8192, <<TextItem>>) EXCEPT !.special = 8184]
      [] kind = "badspecial" -> [HeapPage(8192, <<TextItem>>) EXCEPT !.special = 8190]

RECURSIVE FormatPages(_)
FormatPages(kinds) ==
    IF kinds = << >> THEN << >>
    ELSE <<FormatPage(Head(kinds))>> \o FormatPages(Tail(kinds))

InitFormat ==
    /\ gin = GinIdle /\ parser = ParserIdle
    /\ ToastIdle /\ DecodeIdle
    /\ toastFiles = << >>
    /\ blockOptions = {}
    /\ itemOptions \in {{"ITEM_DETAIL"}, {"ITEM_DETAIL", "ITEM_HEAP"},
                        {"ITEM_DETAIL", "ITEM_INDEX"}}
    /\ maxalign = 8 /\ blockSize = 8192 /\ bytesToFormat = 0
    /\ specialType = "NONE" /\ pageOffset = 0 /\ exitCode = 0
    /\ \E kinds \in SeqsUpTo(FormatKinds, MaxBlocks) : file = FormatPages(kinds)
    /\ dpc = "read" /\ currentBlock = 0 /\ x = 0 /\ hdr = "none" /\ errs = {}

SpecFormat == InitFormat /\ [][NextDump]_vars

(***************************************************************************)
(* Properties of the item format (SpecFormat).                              *)
(***************************************************************************)
\* the format the special section of the block stands for
FormatOfSpecial(stype, page) ==
    CASE stype \in {"INDEX_BTREE", "INDEX_HASH", "INDEX_GIST", "INDEX_GIN"} -> "ITEM_INDEX"
      [] stype = "INDEX_SPGIST" /\ Bit(page.specval, 2) = 1 -> "ITEM_SPG_LEAF"
      [] stype = "INDEX_SPGIST" /\ Bit(page.specval, 2) = 0 -> "ITEM_SPG_INNER"
      [] OTHER -> "ITEM_HEAP"

\* FormatItemBlock is in its loop over the items of the block
FormatsItems == dpc = "items" /\ hdr.walks

MaxDigits == 2    \* stored base-10000 digits of a numeric

NumericInputs ==
    [short : BOOLEAN, neg : BOOLEAN, dscale : {0, 2, 4, 6}, weight : {-2, -1, 0, 1, 2},
     digits : SeqsUpTo({1, 123, 4500}, MaxDigits)]

\* n_header of a short numeric, n_sign_dscale and n_weight of a long one
NumericHeaderOf(n) ==
    IF n.short
    THEN LET h == NUMERIC_SHORT + (IF n.neg THEN 8192 ELSE 0) + n.dscale * 128
                    + (IF n.weight < 0 THEN 64 ELSE 0) + (n.weight % 64)
         IN <<h % 256, h \div 256>>
    ELSE LET h == (IF n.neg THEN NUMERIC_NEG ELSE NUMERIC_POS) + n.dscale
             w == n.weight % 65536
         IN <<h % 256, h \div 256, w % 256, w \div 256>>

RECURSIVE DigitBytes(_)
DigitBytes(digits) ==
    IF digits = << >> THEN << >>
    ELSE <<Head(digits) % 256, Head(digits) \div 256>> \o DigitBytes(Tail(digits))

\* the payload of the numeric, and the attribute holding it
NumericBytes(n) == NumericHeaderOf(n) \o DigitBytes(n.digits)
NumericField(n) == <<2 * (Len(NumericBytes(n)) + 1) + 1>> \o NumericBytes(n)

InitNumeric ==
    /\ gin = GinIdle /\ parser = ParserIdle
    /\ DriverIdle /\ ToastIdle
    /\ maxalign = 8 /\ blockSize = 8192 /\ bytesToFormat = 8192
    /\ specialType = "NONE" /\ pageOffset = 0 /\ exitCode = 0
    /\ itemOptions = {}
    /\ blockOptions = {"BLOCK_DECODE"}
    /\ toastFiles = << >>
    /\ callbacks = <<"numeric">>
    /\ \E n \in NumericInputs :
         tup = HeapItem(8000, 1, FALSE, {}, NumericField(n), <<0, 0>>)
    /\ pc = "start" /\ curr_attr = 0 /\ size = 0 /\ dpos = 0
    /\ copyString = << >> /\ out = << >> /\ log = << >>

SpecNumeric == InitNumeric /\ [][NextDecode]_vars

(***************************************************************************)
(* Properties of the numeric text (SpecNumeric).  The reference rendering   *)
(* works on the digits of the numeric, not on its bytes.                    *)
(***************************************************************************)
\* the base-10000 digit at position p, zero outside the stored ones
RefDigit(digits, p) == IF p >= 0 /\ p < Len(digits) THEN digits[p + 1] ELSE 0

\* the four decimal digits of a group
RefGroup(g) ==
    <<48 + (g \div 1000), 48 + ((g \div 100) % 10), 48 + ((g \div 10) % 10),
      48 + (g % 10)>>

\* the same without leading zeros
RefFirstGroup(g) ==
    IF g >= 1000 THEN RefGroup(g)
    ELSE IF g >= 100 THEN SubSeq(RefGroup(g), 2, 4)
    ELSE IF g >= 10 THEN SubSeq(RefGroup(g), 3, 4)
    ELSE SubSeq(RefGroup(g), 4, 4)

RECURSIVE RefInteger(_, _, _)
\* the groups of positions p..weight
RefInteger(digits, weight, p) ==
    IF p > weight THEN << >>
    ELSE (IF p = 0 THEN RefFirstGroup(RefDigit(digits, p))
          ELSE RefGroup(RefDigit(digits, p)))
         \o RefInteger(digits, weight, p + 1)

RECURSIVE RefFraction(_, _, _)
\* at least left decimal digits, from position p on
RefFraction(digits, p, left) ==
    IF left <= 0 THEN << >>
    ELSE RefGroup(RefDigit(digits, p)) \o RefFraction(digits, p + 1, left - 4)

\* the reference rendering of a non-special numeric
RefNumeric(n) ==
    IF n.digits = << >> THEN <<48>>
    ELSE (IF n.neg THEN <<45>> ELSE << >>)
         \o (IF n.weight < 0 THEN <<48>> ELSE RefInteger(n.digits, n.weight, 0))
         \o (IF n.dscale > 0
             THEN <<46>> \o SubSeq(RefFraction(n.digits, n.weight + 1, n.dscale),
                                   1, n.dscale)
             ELSE << >>)

\* the tuple holds the numeric n and its COPY line is text
RenderedAs(n, text) ==
    /\ tup.data = NumericField(n)
    /\ out = <<[kind |-> "COPY", text |-> text]>>

\* C19: the text of every non-special numeric is the reference rendering:
\* an optional '-', the groups of positions 0..weight without leading zeros
\* in the first one ('0' when weight < 0), then if dscale > 0 a '.' and
\* dscale decimal digits from positions weight+1 on, where every position
\* outside the stored digits gives zeros; no digits render as "0".
C19_NumericIsReferenceRendering ==
    pc = "done" =>
        \A n \in NumericInputs :
            tup.data = NumericField(n) => RenderedAs(n, RefNumeric(n))

\* the positions rendered: 0..weight and the groups of the dscale digits
\* after the point
RenderedPositions(n) ==
    {p \in 0..n.weight : TRUE}
    \cup {p \in (n.weight + 1)..(n.weight + ((n.dscale + 3) \div 4)) : TRUE}

\* the positions past the stored digits that lie below num_size / 2
PositionsPastDigits(n) ==
    {p \in Len(n.digits)..((Len(NumericBytes(n)) \div 2) - 1) : TRUE}

\* what holds: the text is the reference rendering when no position
\* between the number of stored digits and num_size / 2 is rendered
C19_ReferenceUnlessPastDigits ==
    pc = "done" =>
        \A n \in NumericInputs :
            (/\ tup.data = NumericField(n)
             /\ (n.digits = << >> \/ RenderedPositions(n) \cap PositionsPastDigits(n) = {}))
            => RenderedAs(n, RefNumeric(n))

\* the numeric 1.0000 (one stored digit, weight 0, dscale 4, short header)
\* has been rendered with the four decimals taken from behind the copy
C19_Witness ==
    /\ pc = "done"
    /\ LET n == [short |-> TRUE, neg |-> FALSE, dscale |-> 4, weight |-> 0,
                 digits |-> <<1>>]
       IN /\ RenderedAs(n, <<49, 46, 48, 48, 48, 55>>)
          /\ RefNumeric(n) = <<49, 46, 48, 48, 48, 48>>

\* the example of the reference: NEG, dscale 2, weight 0, digits 123, 4500
C19_ExampleRendered ==
    LET n == [short |-> TRUE, neg |-> TRUE, dscale |-> 2, weight |-> 0,
              digits |-> <<123, 4500>>]
    IN (pc = "done" /\ tup.data = NumericField(n))
       => RenderedAs(n, <<45, 49, 50, 51, 46, 52, 53>>)


(***************************************************************************)
(* SpecDate: pg_filedump -D date on a heap tuple whose attribute is the     *)
(* 4-byte date d, days since 2000-01-01.  The dates are the two sentinels   *)
(* and days around: Julian day -32044, where j2date's unsigned julian is 0; *)
(* Julian day 0; the first day of year 1; 2000-01-01 and the leap day of    *)
(* 2000; a day of the year 5870000.  No d + POSTGRES_EPOCH_JDATE leaves     *)
(* the range of int.                                                        *)
(***************************************************************************)
DateSpan == 8    \* days taken on each side of a date of interest

DateInputs ==
    {PG_INT32_MIN, PG_INT32_MAX}
    \cup UNION {(c - DateSpan)..(c + DateSpan) :
                  c \in {-2483589, -2451545, -730119, 0, 59, 2143243000}}

InitDate ==
    /\ gin = GinIdle /\ parser = ParserIdle
    /\ DriverIdle /\ ToastIdle
    /\ maxalign = 8 /\ blockSize = 8192 /\ bytesToFormat = 8192
    /\ specialType = "NONE" /\ pageOffset = 0 /\ exitCode = 0
    /\ itemOptions = {}
    /\ blockOptions = {"BLOCK_DECODE"}
    /\ toastFiles = << >>
    /\ callbacks = <<"date">>
    /\ \E d \in DateInputs : tup = HeapItem(8000, 1, FALSE, {}, Bytes32(d), <<0, 0>>)
    /\ pc = "start" /\ curr_attr = 0 /\ size = 0 /\ dpos = 0
    /\ copyString = << >> /\ out = << >> /\ log = << >>

SpecDate == InitDate /\ [][NextDecode]_vars

(***************************************************************************)
(* Properties of the date text (SpecDate).                                  *)
(***************************************************************************)
\* the Julian day number of a day of the proleptic Gregorian calendar
GregorianMonths(y, m, d) ==
    (y * 365) - 32167 + (y \div 4) - (y \div 100) + ((y \div 100) \div 4)
    + ((7834 * m) \div 256) + d
gregorian_to_jdn(year, month, day) ==
    IF month > 2 THEN GregorianMonths(year + 4800, month + 1, day)
    ELSE GregorianMonths(year + 4799, month + 13, day)

\* the date d of the tuple
DateStored == LE32(tup.data, 1)

\* (year, month, day) is a day of the calendar whose number is that of d;
\* a year past 5874897 has no day number in the range of int
DateRoundTrips(ymd, d) ==
    /\ ymd.month >= 1 /\ ymd.month <= 12
    /\ ymd.day >= 1 /\ ymd.day <= 31
    /\ ymd.year <= 5874897
    /\ gregorian_to_jdn(ymd.year, ymd.month, ymd.day) = d + POSTGRES_EPOCH_JDATE

\* the year as the reference writes it
DateYearText(year) ==
    IF year <= 0 THEN FmtZeroPadded(1 - year, 4) ELSE FmtZeroPadded(year, 4)

\* the COPY line of the date ymd
DateLine(ymd) ==
    <<[kind |-> "COPY",
       text |-> DateYearText(ymd.year) \o <<45>> \o FmtZeroPadded(ymd.month, 2)
                  \o <<45>> \o FmtZeroPadded(ymd.day, 2)
                  \o (IF ymd.year <= 0 THEN STR_BC ELSE << >>)]>>

\* the tuple has been decoded into the line of a day whose number is that
\* of its date
DateDecoded(d) ==
    /\ DateRoundTrips(j2date(d + POSTGRES_EPOCH_JDATE), d)
    /\ out = DateLine(j2date(d + POSTGRES_EPOCH_JDATE))

\* C20: INT32_MIN renders "-infinity" and INT32_MAX "infinity"; for every
\* other d the (year, month, day) that j2date gives for d + 2451545 is the
\* day whose Julian day number is d + 2451545, with the month in 1..12 and
\* the day in 1..31, and a year <= 0 is written as 1 - year followed by
\* " BC".
C20_DateRoundTrips ==
    pc = "done" =>
        IF DateStored = PG_INT32_MIN
        THEN out = <<[kind |-> "COPY", text |-> STR_MINUS_INFINITY]>>
        ELSE IF DateStored = PG_INT32_MAX
        THEN out = <<[kind |-> "COPY", text |-> STR_INFINITY]>>
        ELSE DateDecoded(DateStored)

\* what holds: the same for the dates from Julian day -32044 on
C20_DateRoundTripsFromMinus32044 ==
    (pc = "done" /\ DateStored >= (-32044) - POSTGRES_EPOCH_JDATE)
    => C20_DateRoundTrips

\* the date -2483590 (Julian day -32045) has been decoded into
\* "4560-08-16 BC", a day 88192 days later
C20_Witness ==
    /\ pc = "done" /\ DateStored = -2483590
    /\ out = <<[kind |-> "COPY",
                text |-> <<52, 53, 54, 48, 45, 48, 56, 45, 49, 54, 32, 66, 67>>]>>
    /\ gregorian_to_jdn(-4559, 8, 16) = 56147

\* a day of the year 1 BC has been written with " BC"
C20_BCRendered ==
    /\ pc = "done" /\ DateStored = -730120
    /\ out = <<[kind |-> "COPY",
                text |-> <<48, 48, 48, 49, 45, 49, 50, 45, 51, 49, 32, 66, 67>>]>>

(***************************************************************************)
(* GIN data pages: the varbyte decoder and FormatGinBlock.                 *)
(* A 64-bit unsigned value is a function from bit positions to 0/1.        *)
(* Positions in the page are offsets from GinDataLeafPageGetPostingList.   *)
(***************************************************************************)
MaxHeapTuplesPerPageBits == 11

U64Bits == 0..63
U64Zero == [k \in U64Bits |-> 0]

RECURSIVE BitsValue(_, _, _)
BitsValue(v, from, n) ==
    IF n = 0 THEN 0 ELSE v[from] + (2 * BitsValue(v, from + 1, n - 1))

RECURSIVE AddBits(_, _, _, _)
AddBits(a, b, k, carry) ==
    IF k = 64 THEN << >>
    ELSE <<(a[k] + b[k] + carry) % 2>>
         \o AddBits(a, b, k + 1, (a[k] + b[k] + carry) \div 2)

\* val += delta on uint64
U64Add(a, b) == [k \in U64Bits |-> AddBits(a, b, 0, 0)[k + 1]]

\* val |= c << shift, c of the given width
U64OrShifted(val, c, shift, width) ==
    [k \in U64Bits |->
        IF k >= shift /\ k < shift + width /\ Bit(c, k - shift) = 1
        THEN 1 ELSE val[k]]

\* val = block; val <<= MaxHeapTuplesPerPageBits; val |= offset
itemptr_to_uint64(iptr) ==
    [k \in U64Bits |->
        IF k < MaxHeapTuplesPerPageBits THEN Bit(iptr.ip_posid, k)
        ELSE IF k < 16
        THEN IF Bit(iptr.ip_posid, k) = 1 THEN 1
             ELSE Bit(iptr.bi_lo, k - MaxHeapTuplesPerPageBits)
        ELSE IF k < 16 + MaxHeapTuplesPerPageBits
        THEN Bit(iptr.bi_lo, k - MaxHeapTuplesPerPageBits)
        ELSE IF k < 32 + MaxHeapTuplesPerPageBits
        THEN Bit(iptr.bi_hi, k - (16 + MaxHeapTuplesPerPageBits))
        ELSE 0]

\* a split that leaves the offset bits in the block number
uint64_to_itemptr_unshifted(val) ==
    [bi_hi    |-> BitsValue(val, 16, 16),
     bi_lo    |-> BitsValue(val, 0, 16),
     ip_posid |-> BitsValue(val, 0, MaxHeapTuplesPerPageBits)]

\* offset = val & ((1 << 11) - 1); val >>= 11; block = (uint32) val
uint64_to_itemptr(val) ==
    [bi_hi    |-> BitsValue(val, 16 + MaxHeapTuplesPerPageBits, 16),
     bi_lo    |-> BitsValue(val, MaxHeapTuplesPerPageBits, 16),
     ip_posid |-> BitsValue(val, 0, MaxHeapTuplesPerPageBits)]

\* the item pointer stored at an offset of the page
ItemPointerAt(mem, o) ==
    [bi_hi    |-> LE16(mem, o + 1),
     bi_lo    |-> LE16(mem, o + 3),
     ip_posid |-> LE16(mem, o + 5)]

ItemPointerBytes(iptr) ==
    << iptr.bi_hi % 256, iptr.bi_hi \div 256,
       iptr.bi_lo % 256, iptr.bi_lo \div 256,
       iptr.ip_posid % 256, iptr.ip_posid \div 256 >>

\* *cur = iptr, cur pointing into the page buffer
StoreItemPointer(mem, o, iptr) ==
    [i \in 1..Len(mem) |->
        IF i > o /\ i <= o + 6 THEN ItemPointerBytes(iptr)[i - o] ELSE mem[i]]

\* decode_varbyte from the i-th byte on: bytes 1 to 6 give seven bits each
\* and continue while their high bit is set, the seventh is ORed in whole;
\* the end of the segment is not a parameter
RECURSIVE VarbyteFrom(_, _, _, _)
VarbyteFrom(mem, p, i, val) ==
    IF i = 6
    THEN [val |-> U64OrShifted(val, At(mem, p + 7), 42, 8), ptr |-> p + 7]
    ELSE IF At(mem, p + i + 1) >= 128
    THEN VarbyteFrom(mem, p, i + 1,
                     U64OrShifted(val, At(mem, p + i + 1) % 128, 7 * i, 7))
    ELSE [val |-> U64OrShifted(val, At(mem, p + i + 1) % 128, 7 * i, 7),
          ptr |-> p + i + 1]

decode_varbyte(mem, p) == VarbyteFrom(mem, p, 0, U64Zero)

SHORTALIGN(n) == ((n + 1) \div 2) * 2
GinSegNbytes(mem, seg) == LE16(mem, seg + 7)
\* (char *) seg + SizeOfGinPostingList(seg)
GinNextPostingListSegment(mem, seg) == seg + 8 + SHORTALIGN(GinSegNbytes(mem, seg))
\* pd_lower - MAXALIGN(SizeOfPageHeaderData) - MAXALIGN(sizeof(ItemPointerData))
GinDataLeafPageGetPostingListSize(lower) == lower - 24 - 8

GinPrinted(list, item, iptr) ==
    [list |-> list, item |-> item, bi_hi |-> iptr.bi_hi, bi_lo |-> iptr.bi_lo,
     ip_posid |-> iptr.ip_posid]

\* FormatGinBlock called on a page: its locals before the first statement
GinCall(flags, maxoff, lower, mem) ==
    [pc |-> "enter", flags |-> flags, maxoff |-> maxoff, lower |-> lower,
     page |-> mem, mem |-> mem, seg |-> 0, endptr |-> 0, ptr |-> 0,
     endseg |-> 0, val |-> U64Zero, plist_idx |-> 0, item_idx |-> 0,
     printed |-> << >>, reads |-> {}]

GinAt(where) == gin.pc = where

\* IsGinLeafPage and GinPageIsCompressed: the posting-list walk begins
GinEnterCompressed ==
    /\ GinAt("enter")
    /\ {"GIN_LEAF", "GIN_COMPRESSED"} \subseteq gin.flags
    /\ gin' = [gin EXCEPT
                 !.seg = 0, !.plist_idx = 1,
                 !.endptr = GinDataLeafPageGetPostingListSize(gin.lower),
                 !.pc = IF 0 < GinDataLeafPageGetPostingListSize(gin.lower)
                        THEN "segment" ELSE "done"]
    /\ UNCHANGED <<globalVars, toastFiles, parser, driverVars, toastVars, decodeVars>>

\* the body of the segment loop up to the item loop
GinSegment ==
    /\ GinAt("segment")
    /\ gin' = [gin EXCEPT
                 !.endseg = gin.seg + 8 + GinSegNbytes(gin.mem, gin.seg),
                 !.ptr = gin.seg + 8,
                 !.item_idx = 1,
                 !.printed = Append(@, GinPrinted(gin.plist_idx, 1,
                                       ItemPointerAt(gin.mem, gin.seg))),
                 !.val = itemptr_to_uint64(ItemPointerAt(gin.mem, gin.seg)),
                 !.pc = "item"]
    /\ UNCHANGED <<globalVars, toastFiles, parser, driverVars, toastVars, decodeVars>>

\* one turn of while (ptr < endseg)
GinItem ==
    /\ GinAt("item")
    /\ gin.ptr < gin.endseg
    /\ gin' = [gin EXCEPT
                 !.val = U64Add(gin.val, decode_varbyte(gin.mem, gin.ptr).val),
                 !.ptr = decode_varbyte(gin.mem, gin.ptr).ptr,
                 !.reads = @ \cup
                     { [at |-> o, endseg |-> gin.endseg, endptr |-> gin.endptr] :
                         o \in gin.ptr .. (decode_varbyte(gin.mem, gin.ptr).ptr - 1) },
                 !.item_idx = @ + 1,
                 !.mem = StoreItemPointer(gin.mem, gin.seg,
                            uint64_to_itemptr(U64Add(gin.val,
                                decode_varbyte(gin.mem, gin.ptr).val))),
                 !.printed = Append(@, GinPrinted(gin.plist_idx, gin.item_idx + 1,
                            uint64_to_itemptr(U64Add(gin.val,
                                decode_varbyte(gin.mem, gin.ptr).val)))),
                 !.pc = "item"]
    /\ UNCHANGED <<globalVars, toastFiles, parser, driverVars, toastVars, decodeVars>>

\* the item loop is over: plist_idx++, seg = GinNextPostingListSegment(seg)
GinNextSegment ==
    /\ GinAt("item")
    /\ ~(gin.ptr < gin.endseg)
    /\ gin' = [gin EXCEPT
                 !.plist_idx = @ + 1,
                 !.seg = GinNextPostingListSegment(gin.mem, gin.seg),
                 !.pc = IF GinNextPostingListSegment(gin.mem, gin.seg) < gin.endptr
                        THEN "segment" ELSE "done"]
    /\ UNCHANGED <<globalVars, toastFiles, parser, driverVars, toastVars, decodeVars>>

\* an uncompressed leaf page: maxoff item pointers from GinDataPageGetData
GinLeafItems ==
    /\ GinAt("enter")
    /\ "GIN_LEAF" \in gin.flags /\ "GIN_COMPRESSED" \notin gin.flags
    /\ gin' = [gin EXCEPT
                 !.printed = [i \in 1..gin.maxoff |->
                     GinPrinted(0, i, ItemPointerAt(gin.mem, 6 * (i - 1)))],
                 !.pc = "done"]
    /\ UNCHANGED <<globalVars, toastFiles, parser, driverVars, toastVars, decodeVars>>

\* any other data page: maxoff posting items (child block, then key)
GinPostingItems ==
    /\ GinAt("enter")
    /\ "GIN_LEAF" \notin gin.flags
    /\ gin' = [gin EXCEPT
                 !.printed = [i \in 1..gin.maxoff |->
                     [item |-> i,
                      child_hi |-> LE16(gin.mem, (10 * (i - 1)) + 1),
                      child_lo |-> LE16(gin.mem, (10 * (i - 1)) + 3),
                      key |-> ItemPointerAt(gin.mem, (10 * (i - 1)) + 4)]],
                 !.pc = "done"]
    /\ UNCHANGED <<globalVars, toastFiles, parser, driverVars, toastVars, decodeVars>>

NextGin ==
    \/ GinEnterCompressed
    \/ GinSegment
    \/ GinItem
    \/ GinNextSegment
    \/ GinLeafItems
    \/ GinPostingItems

(***************************************************************************)
(* The pages FormatGinBlock is run on.                                     *)
(***************************************************************************)
MaxSegments == 2

GinFirsts ==
    { [bi_hi |-> 0, bi_lo |-> 7, ip_posid |-> 3],
      [bi_hi |-> 65535, bi_lo |-> 65535, ip_posid |-> 2047] }

\* delta streams: one byte, two deltas, a three-byte delta, seven bytes with
\* and without the high bit in the seventh, a last byte that asks for more
GinStreams ==
    { << >>, <<5>>, <<5, 130, 1>>, <<255, 255, 3>>,
      <<255, 255, 255, 255, 255, 255, 127>>,
      <<129, 128, 128, 128, 128, 128, 255, 1>>,
      <<133>>, <<5, 255, 255>> }

GinSegmentBytes(first, stream) ==
    ItemPointerBytes(first) \o <<Len(stream), 0>> \o stream
    \o (IF Len(stream) % 2 = 1 THEN <<0>> ELSE << >>)

GinSegments == { GinSegmentBytes(f, s) : f \in GinFirsts, s \in GinStreams }

RECURSIVE Flatten(_)
Flatten(ss) == IF ss = << >> THEN << >> ELSE Head(ss) \o Flatten(Tail(ss))

\* what lies on the page after pd_lower
GinFreeSpace == <<1, 0, 0, 0, 0, 0, 0, 0>>

InitGin ==
    /\ DriverIdle /\ ToastIdle /\ DecodeIdle /\ parser = ParserIdle
    /\ maxalign = 8 /\ blockSize = 8192 /\ bytesToFormat = 8192
    /\ specialType = "INDEX_GIN" /\ pageOffset = 0 /\ exitCode = 0
    /\ itemOptions = {} /\ blockOptions = {}
    /\ toastFiles = << >>
    /\ \E segs \in SeqsUpTo(GinSegments, MaxSegments),
          flags \in {{"GIN_DATA", "GIN_LEAF", "GIN_COMPRESSED"},
                     {"GIN_DATA", "GIN_LEAF"}, {"GIN_DATA"}} :
        /\ ("GIN_COMPRESSED" \notin flags) => Len(segs) = 1
        /\ gin = GinCall(flags, 1, 32 + Len(Flatten(segs)),
                         Flatten(segs) \o GinFreeSpace)

SpecGin == InitGin /\ [][NextGin]_vars

(***************************************************************************)
(* Properties of the posting-list walk (SpecGin).                          *)
(***************************************************************************)
\* the deltas of a segment's byte stream, each the list of its bytes: a delta
\* ends with the first byte below 128 or with its seventh byte
RECURSIVE RefDeltas(_, _)
RefDeltas(stream, open) ==
    IF stream = << >> THEN (IF open = << >> THEN << >> ELSE <<open>>)
    ELSE IF Head(stream) < 128 \/ Len(open) = 6
    THEN <<Append(open, Head(stream))>> \o RefDeltas(Tail(stream), << >>)
    ELSE RefDeltas(Tail(stream), Append(open, Head(stream)))

\* the stream ends where a delta ends
RECURSIVE RefWhole(_, _)
RefWhole(stream, n) ==
    IF stream = << >> THEN n = 0
    ELSE IF Head(stream) < 128 \/ n = 6 THEN RefWhole(Tail(stream), 0)
    ELSE RefWhole(Tail(stream), n + 1)

\* the i-th seven-bit group of a delta, 0 past its last byte
RefGroupOf(d, i) == IF i <= Len(d) THEN d[i] % 128 ELSE 0

\* (block << 11 | offset) + delta, split back, on the 16-bit halves of block
RefOffsetSum(p, d) ==
    p.ip_posid + RefGroupOf(d, 1) + (128 * (RefGroupOf(d, 2) % 16))
RefLowSum(p, d) ==
    p.bi_lo + (RefOffsetSum(p, d) \div 2048) + (RefGroupOf(d, 2) \div 16)
    + (8 * RefGroupOf(d, 3)) + (1024 * RefGroupOf(d, 4))
RefHighSum(p, d) ==
    p.bi_hi + (RefLowSum(p, d) \div 65536) + (2 * RefGroupOf(d, 5))
    + (256 * RefGroupOf(d, 6)) + (32768 * (RefGroupOf(d, 7) % 2))
RefNextPointer(p, d) ==
    [bi_hi    |-> RefHighSum(p, d) % 65536,
     bi_lo    |-> RefLowSum(p, d) % 65536,
     ip_posid |-> RefOffsetSum(p, d) % 2048]

\* the base pointer, then one pointer per delta
RECURSIVE RefEnumerate(_, _, _, _)
RefEnumerate(list, item, p, deltas) ==
    <<GinPrinted(list, item, p)>> \o
    (IF deltas = << >> THEN << >>
     ELSE RefEnumerate(list, item + 1, RefNextPointer(p, Head(deltas)), Tail(deltas)))

RefStream(mem, seg) == SubSeq(mem, seg + 9, seg + 8 + GinSegNbytes(mem, seg))

RECURSIVE RefPostingLists(_, _, _, _)
RefPostingLists(mem, seg, len, list) ==
    IF seg >= len THEN << >>
    ELSE RefEnumerate(list, 1, ItemPointerAt(mem, seg),
                      RefDeltas(RefStream(mem, seg), << >>))
         \o RefPostingLists(mem, GinNextPostingListSegment(mem, seg), len, list + 1)

RECURSIVE RefWellFormed(_, _, _)
RefWellFormed(mem, seg, len) ==
    seg >= len
    \/ /\ RefWhole(RefStream(mem, seg), 0)
       /\ ItemPointerAt(mem, seg).ip_posid < 2048
       /\ RefWellFormed(mem, GinNextPostingListSegment(mem, seg), len)

GinCompressedLeaf ==
    gin.pc /= "none" /\ {"GIN_LEAF", "GIN_COMPRESSED"} \subseteq gin.flags

\* C21: on a compressed leaf page whose segments hold whole deltas, the item
\* pointers printed are, for each segment, the base pointer followed by one
\* pointer per delta, each being the previous pointer's (block << 11 | offset)
\* plus the delta, split back as block = value >> 11, offset = value & 0x7FF,
\* a delta being the little-endian concatenation of the seven-bit groups of
\* at most seven bytes
C21_PointersAreRunningSums ==
    (GinCompressedLeaf /\ RefWellFormed(gin.page, 0, gin.lower - 32))
        => /\ Len(gin.printed)
                <= Len(RefPostingLists(gin.page, 0, gin.lower - 32, 1))
           /\ gin.printed
                = SubSeq(RefPostingLists(gin.page, 0, gin.lower - 32, 1),
                         1, Len(gin.printed))
           /\ (gin.pc = "done" =>
                 Len(gin.printed)
                   = Len(RefPostingLists(gin.page, 0, gin.lower - 32, 1)))

\* base (block 7, offset 3) with the delta stream 0x05 is printed as
\* (7,3), (7,8)
C21_Witness ==
    /\ GinCompressedLeaf /\ gin.pc = "done"
    /\ gin.page = GinSegmentBytes([bi_hi |-> 0, bi_lo |-> 7, ip_posid |-> 3], <<5>>)
                  \o GinFreeSpace
    /\ gin.printed = <<GinPrinted(1, 1, [bi_hi |-> 0, bi_lo |-> 7, ip_posid |-> 3]),
                       GinPrinted(1, 2, [bi_hi |-> 0, bi_lo |-> 7, ip_posid |-> 8])>>

\* a seven-byte delta carries through the 32-bit block number
C21_SevenBytes ==
    /\ GinCompressedLeaf /\ gin.pc = "done"
    /\ \E i \in 1..Len(gin.printed) : gin.printed[i].item = 3
    /\ gin.page = GinSegmentBytes([bi_hi |-> 65535, bi_lo |-> 65535, ip_posid |-> 2047],
                                  <<129, 128, 128, 128, 128, 128, 255, 1>>)
                  \o GinFreeSpace

\* C30: every byte the varbyte decoder reads lies before the end of the
\* segment being decoded and before the end of the page's posting-list area
C30_ReadsStayInSegment ==
    GinCompressedLeaf =>
        \A r \in gin.reads : r.at < r.endseg /\ r.at < r.endptr

\* what the decoder does keep to: a delta begins inside its segment and is
\* read for at most six bytes past the segment's end
C30_ReadsAtMostSixPast ==
    GinCompressedLeaf =>
        \A r \in gin.reads : r.at < r.endseg + 6

\* the segment (7,3) with the one byte 0x85: the decoder went on to the byte
\* after the segment, which is also the first byte after the posting lists
C30_Witness ==
    /\ GinCompressedLeaf /\ gin.pc = "done"
    /\ gin.page = GinSegmentBytes([bi_hi |-> 0, bi_lo |-> 7, ip_posid |-> 3], <<133>>)
                  \o GinFreeSpace
    /\ [at |-> 9, endseg |-> 9, endptr |-> 10] \in gin.reads

(***************************************************************************)
(* SpecWalk: the dump of a heap file whose last block may have been read   *)
(* short, with and without a sibling TOAST relation.                       *)
(***************************************************************************)
WalkKinds == {"pointer_first", "pointer_last", "empty", "short", "short_pointer",
              "header_cut"}

WalkPage(kind) ==
    CASE kind = "short" ->
           [HeapPage(8192, <<[TextItem EXCEPT !.off = 7800], TextItem>>)
               EXCEPT !.nbytes = 7950]
      [] kind = "short_pointer" ->
           [HeapPage(8192, <<PointerItem(7800), TextItem>>) EXCEPT !.nbytes = 7950]
      [] kind = "header_cut" ->
           [HeapPage(8192, <<TextItem>>) EXCEPT !.nbytes = 26]
      [] OTHER -> ParentPage(kind)

\* fread fills every block but the last
WalkFiles ==
    { <<WalkPage(k)>> : k \in WalkKinds }
    \cup { <<ParentPage(k1), WalkPage(k2)>> : k1 \in ParentKinds, k2 \in WalkKinds }

InitWalk ==
    /\ gin = GinIdle /\ parser = ParserIdle
    /\ ToastIdle
    /\ blockOptions = {"BLOCK_DECODE", "BLOCK_DECODE_TOAST"}
    /\ itemOptions = {}
    /\ maxalign = 8 /\ blockSize = 8192 /\ bytesToFormat = 0
    /\ specialType = "NONE" /\ pageOffset = 0 /\ exitCode = 0
    /\ file \in WalkFiles
    /\ \E tk \in {"first", "nofile", "nopages"} : toastFiles = ToastFilesOf(tk)
    /\ callbacks = <<"text">> /\ tup = "none" /\ pc = "idle" /\ curr_attr = 0
    /\ size = 0 /\ dpos = 0 /\ copyString = << >> /\ out = << >> /\ log = << >>
    /\ dpc = "read" /\ currentBlock = 0 /\ x = 0 /\ hdr = "none" /\ errs = {}

SpecWalk == InitWalk /\ [][NextDump]_vars

(***************************************************************************)
(* Properties of the item walk (SpecWalk).                                 *)
(***************************************************************************)
\* FormatItemBlock takes line pointer x
WalksItem == dpc = "items" /\ x' = x + 1

\* the header with its line-pointer array does not fit the bytes read
HeaderStraddles ==
    ThePage.nbytes < SizeOfPageHeaderData
                     + (SizeofItemIdData * PageGetMaxOffsetNumber(ThePage))

\* line pointer x is decoded exactly if the item fits the block size and
\* avail bytes, and is reported to extend beyond the block otherwise
WalkCappedTo(avail) ==
    WalksItem =>
        IF ItemExtendsBeyond(PageGetItemId(ThePage, x), avail, blockSize)
        THEN out' = out /\ "ItemExtends" \in errs' /\ dpc' = "items"
        ELSE out' # out

HeaderCutStopsWalk ==
    (dpc = "header" /\ dpc' # "header" /\ HeaderStraddles)
        => (dpc' = "next" /\ "EofInHeader" \in errs')

\* C22: an item is decoded only if offset + length lies within the page size
\* and the number of bytes read for its block, any other item gives the
\* "extends beyond block" error and the walk goes on with the next line
\* pointer; when the header with its line-pointer array straddles the bytes
\* read, the end of block in the header is reported and no item is walked
C22_WalkCappedToBytesRead ==
    [][WalkCappedTo(ThePage.nbytes) /\ HeaderCutStopsWalk]_vars

\* what the walk is capped to: the global bytesToFormat as it is when the
\* line pointer is taken
C22_WalkCappedToBytesToFormat ==
    [][WalkCappedTo(bytesToFormat) /\ HeaderCutStopsWalk]_vars

\* a block read up to byte 7950 whose first tuple points to a TOAST value:
\* after the value was fetched the second item, which ends at byte 8026, is
\* tested against the 8192 bytes read from the TOAST file and decoded
C22_Witness ==
    /\ dpc = "items" /\ x = 3 /\ ThePage.nbytes = 7950 /\ bytesToFormat = 8192
    /\ PageGetItemId(ThePage, 1) = PointerItem(7800)
    /\ PageGetItemId(ThePage, 2) = TextItem
    /\ "ItemExtends" \notin errs
    /\ Len(out) = 2

(***************************************************************************)
(* SpecStop: the nested scan for a pointer whose external size is 0, is    *)
(* reached by the first chunks, or is larger than what the file holds.     *)
(* The scan is one sequential loop: it takes its next step whenever it has *)
(* one.                                                                    *)
(***************************************************************************)
StopSizes == {0, 1, 3, 5}

InitStop ==
    /\ gin = GinIdle /\ parser = ParserIdle
    /\ DriverIdle
    /\ maxalign = 8 /\ blockSize = 8192 /\ bytesToFormat = 8192
    /\ specialType = "NONE" /\ pageOffset = 0 /\ exitCode = 0
    /\ blockOptions = {"BLOCK_DECODE", "BLOCK_DECODE_TOAST"} /\ itemOptions = {}
    /\ \E n \in 1..MaxChunks, foreign \in BOOLEAN, s \in StopSizes :
         \E payloads \in [1..n -> ChunkPayloads], spread \in Spreads(n) :
           /\ toastFiles = (ToastTarget.relid :>
                              ToastRelation(payloads, [i \in 1..n |-> i], spread, n,
                                            foreign))
           /\ tup = HeapItem(8000, 1, FALSE, {},
                             ExtOnDisk(s + VARHDRSZ, s, 0), <<0, 0>>)
    /\ callbacks = <<"text">> /\ pc = "loop" /\ curr_attr = 0 /\ size = 18
    /\ dpos = 0 /\ copyString = << >> /\ out = << >> /\ log = << >>
    /\ tpc = "open" /\ toastIn = << >> /\ toastBlock = 0 /\ toastX = 0
    /\ toastValue = << >> /\ toastRead = 0 /\ toastOvf = FALSE

\* every step of the scan moves its position
scanPosition == <<tpc, toastX, toastBlock>>

\* the scan has been started and has not returned: it moves on
ScanRuns ==
    /\ tpc \notin {"idle", "closed"}
    /\ tpc' \in {"read", "block", "items", "special", "next", "done", "closed"}
    /\ toastX' \in 0..(2 * MaxChunks)
    /\ toastBlock' \in 0..(MaxBlocks + 1)

SpecStop == InitStop /\ [][NextToast]_vars /\ WF_scanPosition(ScanRuns)

(***************************************************************************)
(* Properties of the end of the nested scan (SpecStop).                    *)
(***************************************************************************)
\* the scan is under way and the accumulated byte count has reached S
SizeReached ==
    tpc \notin {"open", "closed"} /\ ~ULt(toastRead, toast_ptr.extsize)

\* an item of the block is handed to ToastChunkDecode / a block is read
DecodesItem == tpc = "items" /\ toastX' = toastX + 1
ReadsBlock  == tpc = "read" /\ tpc' = "block"

\* C23: once accumulated >= S no further item of the current block is
\* decoded and no further block of the TOAST file is read
C23_StopsOnceReached ==
    [][SizeReached => (~DecodesItem /\ ~ReadsBlock)]_vars

\* the same for S > 0
C23_StopsOnceReachedUnlessZero ==
    [][(SizeReached /\ toast_ptr.extsize # 0) => (~DecodesItem /\ ~ReadsBlock)]_vars

\* whether or not S is reached, the scan ends
C23_ScanTerminates == <>(tpc = "closed")

\* S = 0: a block was read and its first item decoded before the first test
C23_Witness ==
    /\ toast_ptr.extsize = 0 /\ tpc = "special" /\ toastBlock = 0 /\ toastX = 2
    /\ toastRead = 1

\* S = 5 is not reached: the scan ended at the end of the file
C23_EndOfFile ==
    /\ toast_ptr.extsize = 5 /\ tpc = "closed" /\ toastRead < 5
    /\ toastBlock = Len(toastIn)

(***************************************************************************)
(* SpecChunks: the nested scan over chunk tuples whose data field is a     *)
(* plain varlena, a short one, a compressed one or an on-disk pointer into *)
(* a second TOAST relation.                                                *)
(***************************************************************************)
OtherRelid == ToastTarget.relid + 1

ChunkFields ==
    { Bytes32(4 * (VARHDRSZ + 1)) \o <<97>>,                  \* 4-byte header, "a"
      <<5, 97>>,                                              \* 1-byte header, "a"
      Bytes32((4 * (VARHDRSZ + 8)) + 2) \o <<1, 0, 0, 0, 0, 97, 97, 97>>,  \* compressed
      <<1, VARTAG_ONDISK>> \o Bytes32(3 + VARHDRSZ) \o Bytes32(3)
          \o Bytes32(ToastTarget.valueid) \o Bytes32(OtherRelid) }  \* external

\* a chunk tuple of the value whose third field is the given bytes
RawChunk(off, seq, field) ==
    HeapItem(off, 3, FALSE, {},
             Bytes32(ToastTarget.valueid) \o Bytes32(seq) \o field, <<0, 0>>)

ChunksRelation(fields, spread) ==
    [b \in 1..MaxBlocks |->
        HeapPage(8192,
                 SelectSeq([i \in 1..Len(fields) |->
                               [RawChunk(8000 - (40 * i), i - 1, fields[i])
                                   EXCEPT !.flags = spread[i]]],
                           LAMBDA it : it.flags = b))]

\* the line pointers are LP_NORMAL
NormalItems(page) ==
    [page EXCEPT !.items = [i \in 1..Len(page.items) |->
                               [page.items[i] EXCEPT !.flags = LP_NORMAL]]]

InitChunks ==
    /\ gin = GinIdle /\ parser = ParserIdle
    /\ DriverIdle
    /\ maxalign = 8 /\ blockSize = 8192 /\ bytesToFormat = 8192
    /\ specialType = "NONE" /\ pageOffset = 0 /\ exitCode = 0
    /\ blockOptions = {"BLOCK_DECODE", "BLOCK_DECODE_TOAST"} /\ itemOptions = {}
    /\ \E n \in 1..MaxChunks :
         \E fields \in [1..n -> ChunkFields], spread \in Spreads(n) :
           toastFiles = (ToastTarget.relid :>
                            [b \in 1..MaxBlocks |->
                                NormalItems(ChunksRelation(fields, spread)[b])])
                        @@ (OtherRelid :> OneChunkFile)
    /\ tup = HeapItem(8000, 1, FALSE, {}, ExtOnDisk(16 + VARHDRSZ, 16, 0), <<0, 0>>)
    /\ callbacks = <<"text">> /\ pc = "loop" /\ curr_attr = 0 /\ size = 18
    /\ dpos = 0 /\ copyString = << >> /\ out = << >> /\ log = << >>
    /\ tpc = "open" /\ toastIn = << >> /\ toastBlock = 0 /\ toastX = 0
    /\ toastValue = << >> /\ toastRead = 0 /\ toastOvf = FALSE

SpecChunks == InitChunks /\ [][NextToast]_vars /\ WF_scanPosition(ScanRuns)

(***************************************************************************)
(* Properties of the depth of TOAST expansion (SpecChunks).                *)
(***************************************************************************)
\* the relation file is open
ToastHandleOpen == tpc \in {"read", "block", "items", "special", "next", "done"}

\* the bytes a chunk tuple gives when its data field is taken as it is: the
\* payload of an uncompressed 4-byte-header varlena, nothing otherwise
RefChunkBytes(item) ==
    IF item.data[9] % 4 = 0 THEN SubSeq(item.data, 13, Len(item.data)) ELSE << >>

RECURSIVE RefValue(_)
RefValue(items) ==
    IF items = << >> THEN << >>
    ELSE RefChunkBytes(Head(items)) \o RefValue(Tail(items))

\* the chunk tuples the scan has passed
ItemsPassed ==
    IF tpc \in {"open"} THEN << >>
    ELSE FileItems(SubSeq(toastIn, 1, toastBlock), 1)
         \o (IF tpc \in {"items", "special", "next"} /\ toastBlock < Len(toastIn)
             THEN SubSeq(ToastPage.items, 1,
                         IF toastX - 1 < Len(ToastPage.items) THEN toastX - 1
                         ELSE Len(ToastPage.items))
             ELSE << >>)

\* the only file the scan has open is the one the parent's pointer names, and
\* what it has gathered are the plain payloads of the chunks it passed: no
\* chunk was expanded through the second relation or decompressed
ScanStaysInItsFile ==
    /\ ToastHandleOpen => toastIn = toastFiles[toast_ptr.va_toastrelid]
    /\ tpc # "open" =>
         /\ toastRead = Len(RefValue(ItemsPassed))
         /\ SubSeq(toastValue, 1, toastRead) = RefValue(ItemsPassed)

\* C24: the scan of a TOAST relation file started by the varlena resolver
\* never starts TOAST resolution itself nor opens another relation file,
\* whatever the chunk tuples hold, and it terminates
C24_ExpansionDepthOne == []ScanStaysInItsFile /\ <>(tpc = "closed")

\* a scan is over that passed a chunk whose data is an on-disk pointer into
\* the second relation and a plain chunk: it gathered the plain byte only
C24_Witness ==
    /\ tpc = "closed" /\ toastRead = 1 /\ toastValue[1] = 97
    /\ \E i \in 1..Len(toastIn[1].items) :
         /\ toastIn[1].items[i].data[9] = 1
         /\ toastIn[1].items[i].data[10] = VARTAG_ONDISK
    /\ Len(toastIn[1].items) = 2

(***************************************************************************)
(* SpecPadding: tuples whose data ends in zero bytes, followed on the page *)
(* by bytes that do not belong to them.                                    *)
(***************************************************************************)
PaddingData ==
    { <<0>>, <<0, 0>>, <<0, 0, 0>>, <<5, 97>>, <<5, 97, 0>>, <<5, 97, 0, 0>>,
      <<0, 5, 97>>, <<0, 0, 5, 97>>, <<5, 97, 5, 98>>, <<0, 5, 97, 0>> }

\* the two bytes behind the tuple: zeros, a 1-byte header, a 4-byte header,
\* an external header
PaddingBeyond == { <<0, 0>>, <<7, 0>>, <<4, 0>>, <<1, 18>> }

InitPadding ==
    /\ gin = GinIdle /\ parser = ParserIdle
    /\ DriverIdle /\ ToastIdle
    /\ maxalign = 8 /\ blockSize = 8192 /\ bytesToFormat = 8192
    /\ specialType = "NONE" /\ pageOffset = 0 /\ exitCode = 0
    /\ itemOptions = {}
    /\ blockOptions = {"BLOCK_DECODE"}
    /\ toastFiles = << >>
    /\ \E data \in PaddingData, bey \in PaddingBeyond, natts \in 1..MaxAttrs :
         /\ callbacks = [i \in 1..natts |-> "text"]
         /\ tup = HeapItem(8000, natts, FALSE, {}, data, bey)
    /\ pc = "start" /\ curr_attr = 0 /\ size = 0 /\ dpos = 0
    /\ copyString = << >> /\ out = << >> /\ log = << >>

SpecPadding == InitPadding /\ [][NextDecode]_vars

(***************************************************************************)
(* Properties of the padding loop (SpecPadding).                           *)
(***************************************************************************)
\* the n bytes handed to the call of log entry e are all zero
AllZero(e) ==
    /\ e.kind = "call"
    /\ \A k \in 0..(e.n - 1) : At(tup.data \o tup.beyond, e.at + k) = 0

\* the byte behind the n bytes of the call
ByteBehind(e) == At(tup.data \o tup.beyond, e.at + e.n)

\* C25: a call of the resolver on n bytes that are all zero fails in the
\* padding loop, with -1, whatever the byte p[n] behind them is
C25_AllZeroFailsInPadding ==
    \A i \in 1..Len(log) :
        AllZero(log[i]) => (log[i].ret = -1 /\ log[i].form = "padding")

\* the same when the byte behind the n bytes is zero as well
C25_AllZeroFailsInPaddingIfZeroBehind ==
    \A i \in 1..Len(log) :
        (AllZero(log[i]) /\ ByteBehind(log[i]) = 0)
            => (log[i].ret = -1 /\ log[i].form = "padding")

\* one zero byte with 0x04 behind it: the loop took the zero, found 0x04,
\* and the call ended where no header form applies
C25_Witness ==
    /\ pc = "done" /\ tup.data = <<0>> /\ tup.beyond = <<4, 0>>
    /\ Len(log) = 1 /\ AllZero(log[1])
    /\ log[1].ret = -9 /\ log[1].padding = 1 /\ log[1].form = "none"

(***************************************************************************)
(* Properties of the length handed to the formatters (SpecVarlena).        *)
(***************************************************************************)
\* every formatter call of log entry e got a length >= 0 and the process
\* went on
LengthNotNegative(e) ==
    /\ \A k \in 1..Len(e.fmt) : e.fmt[k].len >= 0
    /\ ~e.exit

\* the call met a 4-byte uncompressed header that states a total length
\* below its own 4 bytes
StatesLessThanHeader(e) ==
    /\ e.form = "inline4b"
    /\ PhysicalSize(TupleMem, e.at + e.padding) < 4

\* C26: every call of a value formatter made by the varlena resolver gets a
\* payload length >= 0; a 4-byte-header varlena whose stated length L is below
\* 4 is rejected as a decode error without a formatter call, and the process
\* is not ended
C26_FormatterLengthNotNegative ==
    \A i \in 1..Len(log) :
        log[i].kind = "call" =>
            /\ LengthNotNegative(log[i])
            /\ StatesLessThanHeader(log[i]) => (log[i].ret < 0 /\ log[i].fmt = << >>)

\* the same for every call but that on a stated length below 4
C26_FormatterLengthNotNegativeFromLength4 ==
    \A i \in 1..Len(log) :
        (log[i].kind = "call" /\ ~StatesLessThanHeader(log[i]))
            => LengthNotNegative(log[i])

\* L = 2: CopyAppendEncode was called with the length -2 and the process
\* ended in exit(1)
C26_Witness ==
    /\ pc = "exited"
    /\ \E i \in 1..Len(log) :
         /\ log[i].kind = "call" /\ StatesLessThanHeader(log[i])
         /\ log[i].padding = 0
         /\ Len(log[i].fmt) = 1 /\ log[i].fmt[1].len = -2
         /\ log[i].fmt[1].fn = "CopyAppendEncode"
         /\ log[i].exit

(***************************************************************************)
(* SpecHoff: FormatDecode on items that are shorter than the tuple header  *)
(* they announce (t_hoff = 24), and on items that are not.                 *)
(***************************************************************************)
\* item lengths: 20 and 23 lie below t_hoff, 24 leaves no data, 26 two bytes
HoffLengths == {20, 23, 24, 26}

\* an item of the given length; what follows t_hoff bytes after its start is
\* the two bytes of its data, or of what lies behind it on the page
HoffItem(len, bytes) ==
    IF len = 26 THEN HeapItem(8000, 1, FALSE, {}, bytes, <<0, 0>>)
    ELSE [HeapItem(8000, 1, FALSE, {}, << >>, bytes) EXCEPT !.len = len]

InitHoff ==
    /\ gin = GinIdle /\ parser = ParserIdle
    /\ DriverIdle /\ ToastIdle
    /\ maxalign = 8 /\ blockSize = 8192 /\ bytesToFormat = 8192
    /\ specialType = "NONE" /\ pageOffset = 0 /\ exitCode = 0
    /\ itemOptions = {}
    /\ blockOptions = {"BLOCK_DECODE"}
    /\ toastFiles = << >>
    /\ \E len \in HoffLengths, bytes \in {<<5, 97>>, <<0, 0>>, <<3, 3>>},
          cbs \in SeqsUpTo({"text", "bool", "~"}, MaxAttrs) \ {<< >>} :
         /\ callbacks = cbs
         /\ tup = HoffItem(len, bytes)
    /\ pc = "start" /\ curr_attr = 0 /\ size = 0 /\ dpos = 0
    /\ copyString = << >> /\ out = << >> /\ log = << >>

SpecHoff == InitHoff /\ [][NextDecode]_vars

(***************************************************************************)
(* Properties of the remaining-byte count (SpecHoff).                      *)
(***************************************************************************)
\* a, b as unsigned int: a <= b
ULe(a, b) == ~ULt(b, a)

\* the remaining-byte count and every length handed to a decoder are at most
\* the item length
SizeWithinItem ==
    /\ pc # "start" => ULe(size, tup.len)
    /\ \A i \in 1..Len(log) : log[i].kind = "call" => ULe(log[i].n, tup.len)

\* the item is rejected: an error line and no decoder call
ItemRejected ==
    /\ \E i \in 1..Len(out) : out[i].kind = "Error"
    /\ \A i \in 1..Len(log) : log[i].kind # "call"

\* C27: the remaining-byte count item_length - hoff never exceeds the item
\* length; a tuple whose hoff is greater than the item length is rejected as
\* an error, and no attribute decoder is handed a length larger than the item
C27_SizeNeverExceedsItem ==
    /\ SizeWithinItem
    /\ (tup.hoff > tup.len /\ pc = "done") => ItemRejected

\* the same for the items that hold their header
C27_SizeWithinItemThatHoldsHeader ==
    tup.hoff <= tup.len => SizeWithinItem

\* an item of 20 bytes with t_hoff = 24: the text decoder was handed
\* 4294967292 bytes, took the varlena 05 61 behind the item and the line
\* ended with the error of 4294967290 bytes left
C27_Witness ==
    /\ pc = "done" /\ tup.len = 20 /\ tup.hoff = 24
    /\ callbacks = <<"text">>
    /\ Len(log) = 1 /\ log[1].kind = "call" /\ log[1].n = -4 /\ log[1].ret = 0
    /\ log[1].after = <<97>>
    /\ size = -6
    /\ ToastChunkDecode([PlainChunk EXCEPT !.len = 20], ToastTarget.valueid).chunk_size = 1

(***************************************************************************)
(* SpecCapacity: the nested scan for pointers whose raw size, from which   *)
(* the destination buffer is allocated, and external size do not match the *)
(* chunks found in the file.                                               *)
(***************************************************************************)
CapacityRawSizes == {0, 3, 7, 12}

CapacityPayloads == {<<97>>, <<99, 100>>, <<101, 102, 103, 104, 105, 106, 107, 108>>}

InitCapacity ==
    /\ gin = GinIdle /\ parser = ParserIdle
    /\ DriverIdle
    /\ maxalign = 8 /\ blockSize = 8192 /\ bytesToFormat = 8192
    /\ specialType = "NONE" /\ pageOffset = 0 /\ exitCode = 0
    /\ blockOptions = {"BLOCK_DECODE", "BLOCK_DECODE_TOAST"} /\ itemOptions = {}
    /\ \E n \in 1..MaxChunks, raw \in CapacityRawSizes, ext \in {3, 8} :
         \E payloads \in [1..n -> CapacityPayloads], spread \in Spreads(n) :
           /\ toastFiles = (ToastTarget.relid :>
                              ToastRelation(payloads, [i \in 1..n |-> i], spread, n,
                                            FALSE))
           /\ tup = HeapItem(8000, 1, FALSE, {}, ExtOnDisk(raw, ext, 0), <<0, 0>>)
    /\ callbacks = <<"text">> /\ pc = "loop" /\ curr_attr = 0 /\ size = 18
    /\ dpos = 0 /\ copyString = << >> /\ out = << >> /\ log = << >>
    /\ tpc = "open" /\ toastIn = << >> /\ toastBlock = 0 /\ toastX = 0
    /\ toastValue = << >> /\ toastRead = 0 /\ toastOvf = FALSE

SpecCapacity == InitCapacity /\ [][NextToast]_vars

(***************************************************************************)
(* Properties of the copies into the destination buffer (SpecCapacity).    *)
(***************************************************************************)
\* C28: every chunk copy into the buffer covers a range [accumulated,
\* accumulated + chunk_size) within the buffer's allocated capacity
C28_CopiesWithinCapacity == ~toastOvf

\* a copy went past the buffer exactly when the chunks copied so far are more
\* than the va_rawsize bytes allocated
C28_PastCapacityIffMoreThanRawSize ==
    tpc \notin {"open"} => (toastOvf <=> toastRead > toast_ptr.va_rawsize)

\* raw size 7, external size 3 and a first chunk of 8 bytes: bytes 0..7 were
\* copied to a buffer of 7, and the scan stopped
C28_Witness ==
    /\ tpc = "closed" /\ toastOvf /\ toastRead = 8
    /\ toast_ptr.va_rawsize = 7 /\ toast_ptr.extsize = 3
    /\ Len(toastValue) = 7

(***************************************************************************)
(* ParseAttributeTypesString and AddTypeCallback (decode.c).  A string is  *)
(* a sequence of one-character strings; the terminating NUL, and the NUL   *)
(* written over each comma, is "".  The length limit is scaled down from   *)
(* 1023 and stays odd; the table keeps its size of half the limit.         *)
(***************************************************************************)
ATTRTYPES_STR_MAX_LEN == 5

\* the number of elements of callbacks[]
CallbacksCapacity == ATTRTYPES_STR_MAX_LEN \div 2

\* the names of callback_table[], in order
callback_table ==
    <<"smallserial", "smallint", "int", "oid", "xid", "serial", "bigint",
      "bigserial", "time", "timetz", "date", "timestamp", "timestamptz", "real",
      "float4", "float8", "float", "bool", "uuid", "macaddr", "name", "numeric",
      "char", "~", "charn", "varchar", "varcharn", "text", "json", "xml">>

UpperCase ==
    <<"A", "B", "C", "D", "E", "F", "G", "H", "I", "J", "K", "L", "M",
      "N", "O", "P", "Q", "R", "S", "T", "U", "V", "W", "X", "Y", "Z">>

LowerCase ==
    <<"a", "b", "c", "d", "e", "f", "g", "h", "i", "j", "k", "l", "m",
      "n", "o", "p", "q", "r", "s", "t", "u", "v", "w", "x", "y", "z">>

tolower(c) ==
    IF \E k \in 1..26 : UpperCase[k] = c
    THEN LowerCase[CHOOSE k \in 1..26 : UpperCase[k] = c]
    ELSE c

\* the C string that starts at buf[p]
RECURSIVE CString(_, _)
CString(buf, p) == IF buf[p] = "" THEN "" ELSE buf[p] \o CString(buf, p + 1)

\* strstr(buf + p, ","): the index of the first comma of the C string at p,
\* 0 for NULL
RECURSIVE strstr_comma(_, _)
strstr_comma(buf, p) ==
    IF buf[p] = "" THEN 0
    ELSE IF buf[p] = "," THEN p
    ELSE strstr_comma(buf, p + 1)

\* AddTypeCallback(type) on the parser state ps and the table cbs: the return
\* value, the table, ncallbacks, the indexes written and what was printed.
\* A write at an index past the table lands on the object behind it; where
\* that is ncallbacks itself the counter restarts from what was written
\* (clobber), and the table itself is untouched.
AddTypeCallback(type, cbs, ps, clobber) ==
    IF type = "" THEN [rc |-> 0, cbs |-> cbs, ps |-> ps]
    ELSE IF \E idx \in 1..Len(callback_table) : callback_table[idx] = type
    THEN LET n == ps.ncallbacks
             within == n < CallbacksCapacity
         IN  [rc  |-> 0,
              cbs |-> IF ~within THEN cbs
                      ELSE IF n < Len(cbs) THEN [cbs EXCEPT ![n + 1] = type]
                      ELSE Append(cbs, type),
              ps  |-> [ps EXCEPT !.ncallbacks = IF within \/ ~clobber THEN n + 1
                                                ELSE 1,
                                 !.writes = Append(@, n)]]
    ELSE [rc |-> -1, cbs |-> cbs,
          ps |-> [ps EXCEPT !.printed = Append(@, "type doesn't exist")]]

ParserCall(str) ==
    [pc |-> "call", str |-> str, attrtypes |-> << >>, curr_type |-> 0,
     ncallbacks |-> 0, writes |-> << >>, printed |-> << >>, rc |-> 0]

ParserAt(where) == parser.pc = where

\* the length test, strcpy and the tolower loop
ParseEnter ==
    /\ ParserAt("call")
    /\ parser' =
         IF Len(parser.str) > ATTRTYPES_STR_MAX_LEN
         THEN [parser EXCEPT !.pc = "returned", !.rc = -1,
                             !.printed = Append(@, "longer then")]
         ELSE [parser EXCEPT !.pc = "loop", !.curr_type = 1,
                 !.attrtypes = [i \in 1..Len(parser.str) |-> tolower(parser.str[i])]
                               \o <<"">>]
    /\ UNCHANGED <<globalVars, toastFiles, gin, driverVars, toastVars, decodeVars>>

\* one pass of the while (curr_type) loop
ParseType ==
    /\ ParserAt("loop") /\ parser.curr_type # 0
    /\ \E clobber \in BOOLEAN :
         LET next  == strstr_comma(parser.attrtypes, parser.curr_type)
             buf   == IF next = 0 THEN parser.attrtypes
                      ELSE [parser.attrtypes EXCEPT ![next] = ""]
             added == AddTypeCallback(CString(buf, parser.curr_type), callbacks,
                                      parser, clobber)
         IN  /\ callbacks' = added.cbs
             /\ parser' =
                  IF added.rc < 0
                  THEN [added.ps EXCEPT !.pc = "returned", !.rc = -1, !.attrtypes = buf]
                  ELSE [added.ps EXCEPT !.attrtypes = buf,
                                        !.curr_type = IF next = 0 THEN 0 ELSE next + 1]
    /\ UNCHANGED <<globalVars, toastFiles, gin, driverVars, toastVars,
                   tup, pc, curr_attr, size, dpos, copyString, out, log>>

\* curr_type is NULL: return 0
ParseReturn ==
    /\ ParserAt("loop") /\ parser.curr_type = 0
    /\ parser' = [parser EXCEPT !.pc = "returned", !.rc = 0]
    /\ UNCHANGED <<globalVars, toastFiles, gin, driverVars, toastVars, decodeVars>>

NextParse == ParseEnter \/ ParseType \/ ParseReturn

(***************************************************************************)
(* SpecParse: the -D argument is any string of up to one character more    *)
(* than the limit over "~", the comma and the letters of "oid", one of     *)
(* them in upper case.                                                     *)
(***************************************************************************)
TypeChars == {"~", ",", "O", "i", "d"}

InitParse ==
    /\ gin = GinIdle
    /\ DriverIdle /\ ToastIdle
    /\ maxalign = 8 /\ blockSize = 8192 /\ bytesToFormat = 8192
    /\ specialType = "NONE" /\ pageOffset = 0 /\ exitCode = 0
    /\ blockOptions = {"BLOCK_DECODE"} /\ itemOptions = {}
    /\ toastFiles = << >>
    /\ callbacks = << >> /\ tup = "none" /\ pc = "idle" /\ curr_attr = 0
    /\ size = 0 /\ dpos = 0 /\ copyString = << >> /\ out = << >> /\ log = << >>
    /\ \E str \in SeqsUpTo(TypeChars, ATTRTYPES_STR_MAX_LEN + 1) :
         parser = ParserCall(str)

SpecParse == InitParse /\ [][NextParse]_vars

(***************************************************************************)
(* Properties of the registrations (SpecParse).                            *)
(***************************************************************************)
\* the writes into callbacks[] so far all have an index inside the table
WritesInsideTable ==
    \A k \in 1..Len(parser.writes) : parser.writes[k] < CallbacksCapacity

\* C29: for every accepted attribute-types string the number of registered
\* decoders never exceeds the capacity of the callbacks table, and no
\* registration writes past the end of the table
C29_RegistrationsFitTable ==
    (parser.pc # "none" /\ Len(parser.str) <= ATTRTYPES_STR_MAX_LEN)
    => (parser.ncallbacks <= CallbacksCapacity /\ WritesInsideTable)

\* a string shorter than the limit fits the table, and one of exactly the
\* limit writes at most the one element just behind it
C29_AtMostOneElementBehind ==
    (parser.pc # "none" /\ Len(parser.str) <= ATTRTYPES_STR_MAX_LEN)
    => /\ \A k \in 1..Len(parser.writes) : parser.writes[k] <= CallbacksCapacity
       /\ Len(parser.str) < ATTRTYPES_STR_MAX_LEN => WritesInsideTable

\* "~,~,~" is accepted with three registrations for a table of two
C29_Witness ==
    /\ parser.pc = "returned" /\ parser.rc = 0
    /\ parser.str = <<"~", ",", "~", ",", "~">>
    /\ parser.writes = <<0, 1, 2>> /\ parser.ncallbacks = 3
    /\ callbacks = <<"~", "~">>
====
